---- MODULE Spec2Model ----
(***************************************************************************)
(* Model of the NFT analytics tool server.                                 *)
(*                                                                         *)
(* The tool handlers of the MCP tools module (analyzeCollection,           *)
(* detectWashTrading, getMarketTrends, checkWalletRisk,                    *)
(* getInvestmentAdvice) and the checkWalletRisk tool of the FastMCP        *)
(* server are modelled as one state machine.  A handler is an async        *)
(* function: each action below is the                                      *)
(* stretch of the handler between two suspension points (the call up to    *)
(* its first await, then one action per awaited client method).            *)
(*                                                                         *)
(* The handlers are modelled against the interface of UnleashNFTsClient:   *)
(* an awaited client method resolves with a record of its declared result  *)
(* type or with null, or rejects.  The numeric fields of those records     *)
(* range over the sets below, which put a value on each side of every      *)
(* threshold the handlers test.  (The client of the repository is one      *)
(* implementation of that interface: it reports wash_trading_percentage    *)
(* and floor_price_change_24h as 0 and turns every failure into null or    *)
(* an empty list.  The properties of the handlers below are stated for     *)
(* every record of the interface.)                                         *)
(*                                                                         *)
(* Numbers.  Counts, scores and dollar amounts are integers.  Percentages  *)
(* (wash_trading_percentage, volume_change_24h, floor_price_change_24h)    *)
(* are fixed-point: the integer p stands for p / Scale percent, so that    *)
(* 39.9 and 40.0 are both values of the model.  A source literal t that    *)
(* is compared with a percentage is written Pct(t).                        *)
(*                                                                         *)
(* Specifications.  Spec and SpecConfigured run the handlers one request   *)
(* at a time against the interface of the client.  SpecClient runs the     *)
(* methods of UnleashNFTsClient themselves, each request settled with a    *)
(* JSON payload or a failure.  SpecUpstream runs getInvestmentAdvice with  *)
(* its two promises settled by those methods.  SpecConcurrent interleaves  *)
(* several invocations at their awaits.                                    *)
(***************************************************************************)
EXTENDS Integers, Sequences, FiniteSets, TLC

VARIABLES
    apiKey,     \* TRUE iff UNLEASH_API_KEY or UNLEASH_NFTS_API_KEY is set
    pc,         \* position of the running handler
    tool,       \* the tool being invoked
    args,       \* its arguments
    calls,      \* client methods called so far by this invocation, in order
    saved,      \* result of an earlier await that the handler still holds
    response,   \* what the handler returned
    escaped,    \* TRUE iff an exception left the handler
    http,       \* the HTTP requests that have settled, with their responses
    op,         \* the client operation that was called directly
    frames,     \* parameters and constants of the invocations in flight
    runs        \* the invocations in flight: continuation and response

vars ==
    <<apiKey, pc, tool, args, calls, saved, response, escaped, http, op,
      frames, runs>>

-----------------------------------------------------------------------------
(* Bounds and value sets *)

Scale == 10

Pct(t) == t * Scale

Null == [null |-> TRUE]
Rejected == [rejected |-> TRUE]
NoResponse == [none |-> TRUE]
NoArgs == [none |-> TRUE]
NoOperation == [method |-> "none", pc |-> "idle", result |-> [none |-> TRUE]]
NoError == ""

AbsVal(x) == IF x < 0 THEN -x ELSE x
Max(a, b) == IF a >= b THEN a ELSE b
Min(a, b) == IF a <= b THEN a ELSE b

\* wash_trading_percentage: one value below, at and above each threshold
\* (5, 15, 25, 30, 40), 39.9, and a value above 100
PctValues ==
    {0, Pct(5) - 1, Pct(5), Pct(5) + 1, Pct(15) - 1, Pct(15), Pct(15) + 1,
     Pct(25) - 1, Pct(25), Pct(30), Pct(30) + 1, Pct(40) - 1, Pct(40),
     Pct(150)}

OwnerCounts == {0, 99, 100, 499, 500, 5000}
VolumeChanges == {Pct(-50) - 1, Pct(-50), 0, Pct(25)}
FloorChanges == {Pct(-30) - 1, Pct(-30), 0, Pct(30), Pct(30) + 1}

\* the fields of CollectionData that analyzeCollection reads
CollectionDataSet ==
    [owner_count : OwnerCounts,
     volume_change_24h : VolumeChanges,
     floor_price_change_24h : FloorChanges]

\* the fields of the wash trading record that the handlers read
WashTradingSales == {0, 7}

WashTradingDataSet ==
    [wash_trading_percentage : PctValues,
     wash_trading_sales : WashTradingSales,
     total_sales : {0}]

-----------------------------------------------------------------------------
(* Responses *)

\* a tool result whose payload has no "error" key
Success(result) == [isError |-> FALSE, error |-> NoError, result |-> result]

\* { content: [{ text: JSON.stringify({ error: msg, ... }) }] }
\* returned without an isError property
ErrorPayload(msg) == [isError |-> FALSE, error |-> msg, result |-> Null]

\* the catch block: { content: [...], isError: true }
CaughtError(msg) == [isError |-> TRUE, error |-> msg, result |-> Null]

IsFailure(r) == r # NoResponse /\ r.error # NoError
IsSuccess(r) == r # NoResponse /\ r.error = NoError

-----------------------------------------------------------------------------
(* analyzeCollection (tools module) *)

NoPenalty == [penalty |-> 0, risks |-> <<>>]

\* checkHolderConcentration with the 500 bound made inclusive
checkHolderConcentration_Inclusive(collectionData) ==
    IF collectionData.owner_count < 100
    THEN [penalty |-> 20, risks |-> <<"low_holder_count">>]
    ELSE IF collectionData.owner_count <= 500
    THEN [penalty |-> 10, risks |-> <<"moderate_holder_count">>]
    ELSE NoPenalty

checkHolderConcentration(collectionData) ==
    IF collectionData.owner_count < 100
    THEN [penalty |-> 20, risks |-> <<"low_holder_count">>]
    ELSE IF collectionData.owner_count < 500
    THEN [penalty |-> 10, risks |-> <<"moderate_holder_count">>]
    ELSE NoPenalty

\* checkWashTrading with the two penalties exchanged
checkWashTrading_Exchanged(washTradingData) ==
    IF washTradingData # Null /\ washTradingData.wash_trading_percentage > Pct(30)
    THEN [penalty |-> 15, risks |-> <<"high_wash_trading">>]
    ELSE IF washTradingData # Null /\ washTradingData.wash_trading_percentage > Pct(15)
    THEN [penalty |-> 30, risks |-> <<"moderate_wash_trading">>]
    ELSE NoPenalty

checkWashTrading(washTradingData) ==
    IF washTradingData # Null /\ washTradingData.wash_trading_percentage > Pct(30)
    THEN [penalty |-> 30, risks |-> <<"high_wash_trading">>]
    ELSE IF washTradingData # Null /\ washTradingData.wash_trading_percentage > Pct(15)
    THEN [penalty |-> 15, risks |-> <<"moderate_wash_trading">>]
    ELSE NoPenalty

checkVolumeChanges(collectionData) ==
    IF collectionData.volume_change_24h < Pct(-50)
    THEN [penalty |-> 15, risks |-> <<"sharp_volume_decline">>]
    ELSE NoPenalty

\* checkPriceVolatility without Math.abs
checkPriceVolatility_Signed(collectionData) ==
    IF collectionData.floor_price_change_24h > Pct(30)
    THEN [penalty |-> 10, risks |-> <<"high_price_volatility">>]
    ELSE NoPenalty

checkPriceVolatility(collectionData) ==
    IF AbsVal(collectionData.floor_price_change_24h) > Pct(30)
    THEN [penalty |-> 10, risks |-> <<"high_price_volatility">>]
    ELSE NoPenalty

determineRecommendation(safetyScore) ==
    IF safetyScore >= 80 THEN "SAFE"
    ELSE IF safetyScore >= 60 THEN "CAUTION"
    ELSE "HIGH_RISK"

Includes(seq, x) == \E i \in 1..Len(seq) : seq[i] = x

\* the sentences of the analysis text, each with the number it prints
generateAnalysis(collectionData, washTradingData, risks, safetyScore) ==
    <<[sentence |-> "safety_score", value |-> safetyScore]>>
    \o (IF Len(risks) = 0
        THEN <<[sentence |-> "no_risk_factors", value |-> 0]>>
        ELSE <<[sentence |-> "risk_factor_count", value |-> Len(risks)]>>
             \o (IF Includes(risks, "high_wash_trading")
                 THEN <<[sentence |-> "high_wash_trading",
                         value |-> washTradingData.wash_trading_percentage]>>
                 ELSE <<>>)
             \o (IF Includes(risks, "low_holder_count")
                 THEN <<[sentence |-> "low_holder_count",
                         value |-> collectionData.owner_count]>>
                 ELSE <<>>)
             \o (IF Includes(risks, "sharp_volume_decline")
                 THEN <<[sentence |-> "sharp_volume_decline",
                         value |-> collectionData.volume_change_24h]>>
                 ELSE <<>>)
             \o (IF Includes(risks, "high_price_volatility")
                 THEN <<[sentence |-> "high_price_volatility",
                         value |-> AbsVal(collectionData.floor_price_change_24h)]>>
                 ELSE <<>>))
    \o <<[sentence |-> determineRecommendation(safetyScore), value |-> safetyScore]>>

analyzeCollectionResult(collectionData, washTradingData) ==
    LET holders == checkHolderConcentration(collectionData)
        wash == checkWashTrading(washTradingData)
        volume == checkVolumeChanges(collectionData)
        price == checkPriceVolatility(collectionData)
        safetyScore ==
            100 - holders.penalty - wash.penalty - volume.penalty - price.penalty
        risks == holders.risks \o wash.risks \o volume.risks \o price.risks
    IN  [safety_score |-> safetyScore,
         risks |-> risks,
         holders |-> collectionData.owner_count,
         wash_trading_percentage |->
             IF washTradingData = Null THEN 0
             ELSE washTradingData.wash_trading_percentage,
         volume_change_24h |-> collectionData.volume_change_24h,
         floor_price_change_24h |-> collectionData.floor_price_change_24h,
         recommendation |-> determineRecommendation(safetyScore),
         analysis |-> generateAnalysis(collectionData, washTradingData,
                                       risks, safetyScore)]

\* new UnleashNFTsClient() stands before the try block of every handler:
\* without an API key the constructor throws and nothing catches it
ConstructorThrows ==
    /\ ~apiKey
    /\ pc' = "done"
    /\ escaped' = TRUE
    /\ UNCHANGED <<calls, saved, response>>

Begin(t, a) ==
    /\ pc = "idle"
    /\ tool' = t
    /\ args' = a
    /\ UNCHANGED <<apiKey, http, op, frames, runs>>

Continue(t, at) ==
    /\ pc = at
    /\ tool = t
    /\ UNCHANGED <<apiKey, tool, args, http, op, frames, runs>>

Return(r) ==
    /\ pc' = "done"
    /\ response' = r
    /\ UNCHANGED <<calls, saved, escaped>>

Await(method, at) ==
    /\ pc' = at
    /\ calls' = Append(calls, method)

analyzeCollection_Call ==
    /\ Begin("analyzeCollection", [blockchain |-> "ethereum"])
    /\ \/ ConstructorThrows
       \/ /\ apiKey
          /\ Await("getCollectionData", "await_collection")
          /\ UNCHANGED <<saved, response, escaped>>

analyzeCollection_GotCollection ==
    /\ Continue("analyzeCollection", "await_collection")
    /\ \E collectionData \in CollectionDataSet \cup {Null, Rejected} :
          IF collectionData = Rejected
          THEN Return(CaughtError("Failed to analyze collection"))
          ELSE IF collectionData = Null
          THEN Return(ErrorPayload("Collection not found"))
          ELSE /\ Await("getCollectionWashTrading", "await_wash")
               /\ saved' = collectionData
               /\ UNCHANGED <<response, escaped>>

analyzeCollection_GotWashTrading ==
    /\ Continue("analyzeCollection", "await_wash")
    /\ \E washTradingData \in WashTradingDataSet \cup {Null, Rejected} :
          IF washTradingData = Rejected
          THEN Return(CaughtError("Failed to analyze collection"))
          ELSE Return(Success(analyzeCollectionResult(saved, washTradingData)))

-----------------------------------------------------------------------------
(* detectWashTrading (tools module) *)

\* getWashTradingSeverity with the CRITICAL floor made exclusive
getWashTradingSeverity_Exclusive(percentage) ==
    IF percentage > Pct(40) THEN "CRITICAL"
    ELSE IF percentage >= Pct(25) THEN "HIGH"
    ELSE IF percentage >= Pct(15) THEN "MODERATE"
    ELSE IF percentage >= Pct(5) THEN "LOW"
    ELSE "MINIMAL"

getWashTradingSeverity(percentage) ==
    IF percentage >= Pct(40) THEN "CRITICAL"
    ELSE IF percentage >= Pct(25) THEN "HIGH"
    ELSE IF percentage >= Pct(15) THEN "MODERATE"
    ELSE IF percentage >= Pct(5) THEN "LOW"
    ELSE "MINIMAL"

washTradingDetected(washTradingData) ==
    washTradingData.wash_trading_percentage > Pct(5)

\* Math.round(n * f / 10) of a non-negative integer n and a tenth f
RoundTenths(n, f) == (n * f + 5) \div 10

\* the wash trading record of the client may hold NaN for the count of
\* sales: the record then names the field under nan and holds 0 in it
IsNaN(washTradingData, field) ==
    "nan" \in DOMAIN washTradingData /\ field \in washTradingData.nan

\* the number that is not a number
NaN == [type |-> "NaN"]

\* Math.round(sales * 0.f): NaN for NaN
roundShare(washTradingData, f) ==
    IF IsNaN(washTradingData, "wash_trading_sales") THEN NaN
    ELSE [type |-> "number",
          value |-> RoundTenths(washTradingData.wash_trading_sales, f)]

generateEvidence(washTradingData) ==
    [circular_trades |-> roundShare(washTradingData, 4),
     rapid_flips |-> roundShare(washTradingData, 3),
     same_wallet_trades |-> roundShare(washTradingData, 3),
     data_points_analyzed |-> washTradingData.total_sales]

\* the sentences of the wash trading analysis text
generateWashTradingAnalysis(washTradingData, severity) ==
    IF severity = "MINIMAL"
    THEN <<"minimal_activity", "organic_patterns">>
    ELSE <<"reveals_activity">>
         \o (IF /\ ~IsNaN(washTradingData, "wash_trading_sales")
                /\ washTradingData.wash_trading_sales > 0
             THEN <<"sales_breakdown">> ELSE <<>>)
         \o (IF severity = "CRITICAL" THEN <<"extremely_concerning">>
             ELSE IF severity = "HIGH" THEN <<"substantial_activity">>
             ELSE IF severity = "MODERATE" THEN <<"some_wash_trading">>
             ELSE <<"notable_not_overwhelming">>)

\* the recommendation texts, by their subject
getRecommendations(severity, percentage) ==
    (IF severity = "CRITICAL" \/ severity = "HIGH"
     THEN <<"avoid_trading", "true_liquidity_lower", "prices_inflated">>
     ELSE IF severity = "MODERATE"
     THEN <<"factor_wash_trading", "focus_on_holders", "consider_waiting">>
     ELSE IF severity = "LOW"
     THEN <<"monitor_trends", "use_multiple_metrics">>
     ELSE <<"no_significant_concerns", "standard_due_diligence">>)
    \o <<"current_percentage">>

detectWashTradingResult(washTradingData, collectionData) ==
    LET detected == washTradingDetected(washTradingData)
        severity == getWashTradingSeverity(washTradingData.wash_trading_percentage)
    IN  [collection_known |-> collectionData # Null,
         wash_trading_detected |-> detected,
         severity |-> severity,
         wash_trading_percentage |-> washTradingData.wash_trading_percentage,
         wash_trading_sales |->
             IF IsNaN(washTradingData, "wash_trading_sales") THEN NaN
             ELSE [type |-> "number", value |-> washTradingData.wash_trading_sales],
         total_sales |-> washTradingData.total_sales,
         evidence |-> generateEvidence(washTradingData),
         suspicious_patterns |-> IF detected THEN 2 ELSE 0,
         analysis |-> generateWashTradingAnalysis(washTradingData, severity),
         recommendations |->
             getRecommendations(severity, washTradingData.wash_trading_percentage)]

detectWashTrading_Call ==
    /\ Begin("detectWashTrading", [time_range |-> "7d", blockchain |-> "ethereum"])
    /\ \/ ConstructorThrows
       \/ /\ apiKey
          /\ Await("getCollectionWashTrading", "await_wash")
          /\ UNCHANGED <<saved, response, escaped>>

detectWashTrading_GotWashTrading ==
    /\ Continue("detectWashTrading", "await_wash")
    /\ \E washTradingData \in WashTradingDataSet \cup {Null, Rejected} :
          IF washTradingData = Rejected
          THEN Return(CaughtError("Failed to detect wash trading"))
          ELSE IF washTradingData = Null
          THEN Return(ErrorPayload("Unable to fetch wash trading data"))
          ELSE /\ Await("getCollectionData", "await_collection")
               /\ saved' = washTradingData
               /\ UNCHANGED <<response, escaped>>

detectWashTrading_GotCollection ==
    /\ Continue("detectWashTrading", "await_collection")
    /\ \E collectionData \in {Null, Rejected, CHOOSE c \in CollectionDataSet : TRUE} :
          IF collectionData = Rejected
          THEN Return(CaughtError("Failed to detect wash trading"))
          ELSE Return(Success(detectWashTradingResult(saved, collectionData)))

-----------------------------------------------------------------------------
(* checkWalletRisk (tools module) *)

HexChars ==
    {"0", "1", "2", "3", "4", "5", "6", "7", "8", "9",
     "a", "b", "c", "d", "e", "f", "A", "B", "C", "D", "E", "F"}

AddressHexLen == 40

\* wallet_address.match(/^0x[a-fA-F0-9]{40}$/) on a string given as the
\* sequence of its characters
matchesAddressFormat(wallet_address) ==
    /\ Len(wallet_address) = 2 + AddressHexLen
    /\ wallet_address[1] = "0"
    /\ wallet_address[2] = "x"
    /\ \A i \in 3..Len(wallet_address) : wallet_address[i] \in HexChars

Repeat(c, n) == [i \in 1..n |-> c]

\* well-formed addresses, and strings that miss the format each in one way:
\* too short, too long, no prefix, an upper-case prefix, a character that
\* is no hex digit (first, inside, last), a trailing line break, "0xZZZ", ""
WalletAddresses ==
    {<<"0", "x">> \o Repeat("a", AddressHexLen),
     <<"0", "x">> \o Repeat("F", AddressHexLen - 1) \o <<"9">>,
     <<"0", "x">> \o Repeat("a", AddressHexLen - 1),
     <<"0", "x">> \o Repeat("a", AddressHexLen + 1),
     Repeat("a", AddressHexLen + 2),
     <<"0", "X">> \o Repeat("a", AddressHexLen),
     <<"0", "x", "g">> \o Repeat("a", AddressHexLen - 1),
     <<"0", "x">> \o Repeat("a", AddressHexLen - 1) \o <<"g">>,
     <<"0", "x">> \o Repeat("a", AddressHexLen) \o <<"\n">>,
     <<"0", "x", "Z", "Z", "Z">>,
     <<>>}

\* one value on each side of every threshold of the two wallet scorers
WashtradeScores == {0, 20, 21, 50, 51, 60, 71}
CollectionCounts == {0, 1, 5}
NftCounts == {0, 10, 11, 15, 20, 51}
RealizedGains == {0, 100, 5000, 5001}
RealizedLosses == {50, 10000, 10001, 20000}
TotalValues == {0, 500}

WalletProfileSet ==
    [is_whale : BOOLEAN,
     is_shark : BOOLEAN,
     nft_count : NftCounts,
     collection_count : CollectionCounts,
     total_value : TotalValues,
     realized_gains : RealizedGains,
     realized_losses : RealizedLosses,
     washtrade_score : WashtradeScores]

\* the addresses tried on the FastMCP server's tool: one well-formed, one not
ServerWalletAddresses ==
    {<<"0", "x">> \o Repeat("a", AddressHexLen),
     <<"0", "x", "Z", "Z", "Z">>}

determineWalletType(walletProfile) ==
    IF walletProfile.is_whale THEN "whale"
    ELSE IF walletProfile.is_shark THEN "shark"
    ELSE "regular"

NoFlag == [score |-> 0, flags |-> <<>>]

checkWashTradingScore(walletProfile) ==
    IF walletProfile.washtrade_score > 50
    THEN [score |-> 40, flags |-> <<"high_wash_trading_activity">>]
    ELSE IF walletProfile.washtrade_score > 20
    THEN [score |-> 20, flags |-> <<"moderate_wash_trading_activity">>]
    ELSE NoFlag

\* profitLossRatio < 0.5, the ratio being realized_gains /
\* Math.max(realized_losses, 1): the divisor is at least 1, so the
\* comparison is the one of 2 * realized_gains with the divisor
profitLossRatioBelowHalf(walletProfile) ==
    2 * walletProfile.realized_gains < Max(walletProfile.realized_losses, 1)

\* checkTradingPatterns with the losses bound made inclusive
checkTradingPatterns_Inclusive(walletProfile) ==
    IF profitLossRatioBelowHalf(walletProfile) /\ walletProfile.realized_losses >= 10000
    THEN [score |-> 15, flags |-> <<"poor_trading_performance">>]
    ELSE NoFlag

checkTradingPatterns(walletProfile) ==
    IF profitLossRatioBelowHalf(walletProfile) /\ walletProfile.realized_losses > 10000
    THEN [score |-> 15, flags |-> <<"poor_trading_performance">>]
    ELSE NoFlag

checkPortfolioConcentration(walletProfile) ==
    IF walletProfile.collection_count = 1 /\ walletProfile.nft_count > 10
    THEN [score |-> 20, flags |-> <<"highly_concentrated_portfolio">>]
    ELSE NoFlag

checkSuspiciousPatterns(walletProfile) ==
    IF walletProfile.nft_count = 0 /\ walletProfile.total_value > 0
    THEN [score |-> 15, flags |-> <<"inconsistent_portfolio_data">>]
    ELSE NoFlag

getRiskLevel(score) ==
    IF score >= 70 THEN "HIGH"
    ELSE IF score >= 40 THEN "MODERATE"
    ELSE IF score >= 20 THEN "LOW"
    ELSE "MINIMAL"

\* the sentences of the wallet analysis text
generateWalletAnalysis(profile, riskScore, redFlags, walletType) ==
    <<"risk_score">>
    \o (IF walletType = "whale" THEN <<"whale_influence">>
        ELSE IF walletType = "shark" THEN <<"shark_patterns">>
        ELSE <<>>)
    \o (IF Len(redFlags) = 0
        THEN <<"no_risk_factors">>
        ELSE <<"risk_factor_count">>
             \o (IF Includes(redFlags, "high_wash_trading_activity")
                 THEN <<"high_wash_trading_activity">> ELSE <<>>)
             \o (IF Includes(redFlags, "poor_trading_performance")
                 THEN <<"poor_trading_performance">> ELSE <<>>)
             \o (IF Includes(redFlags, "highly_concentrated_portfolio")
                 THEN <<"highly_concentrated_portfolio">> ELSE <<>>))
    \o (IF profile.nft_count > 0 THEN <<"holdings">> ELSE <<>>)
    \o (IF profile.realized_gains > 0 \/ profile.realized_losses > 0
        THEN <<"trading_history">> ELSE <<>>)

\* the recommendation texts, by their subject
getWalletRecommendations(riskLevel, redFlags, walletType) ==
    (IF riskLevel = "HIGH"
     THEN <<"extreme_caution", "verify_transactions", "avoid_direct_trades">>
     ELSE IF riskLevel = "MODERATE"
     THEN <<"proceed_with_caution", "verify_history", "use_escrow">>
     ELSE IF riskLevel = "LOW"
     THEN <<"standard_due_diligence", "monitor_patterns">>
     ELSE <<"appears_safe", "no_precautions">>)
    \o (IF Includes(redFlags, "high_wash_trading_activity")
        THEN <<"price_manipulation">> ELSE <<>>)
    \o (IF Includes(redFlags, "highly_concentrated_portfolio")
        THEN <<"single_project_bias">> ELSE <<>>)
    \o (IF walletType = "whale" THEN <<"monitor_whale">> ELSE <<>>)

checkWalletRiskResult(walletProfile, include_holdings) ==
    LET walletType == determineWalletType(walletProfile)
        wash == checkWashTradingScore(walletProfile)
        trading == checkTradingPatterns(walletProfile)
        concentration == checkPortfolioConcentration(walletProfile)
        suspicious == checkSuspiciousPatterns(walletProfile)
        riskScore ==
            wash.score + trading.score + concentration.score + suspicious.score
        redFlags ==
            wash.flags \o trading.flags \o concentration.flags \o suspicious.flags
        riskLevel == getRiskLevel(riskScore)
    IN  [risk_score |-> riskScore,
         risk_level |-> riskLevel,
         wallet_type |-> walletType,
         profile |-> walletProfile,
         red_flags |-> redFlags,
         analysis |->
             generateWalletAnalysis(walletProfile, riskScore, redFlags, walletType),
         recommendations |->
             getWalletRecommendations(riskLevel, redFlags, walletType),
         holdings_summary |-> include_holdings /\ walletProfile.nft_count > 0]

checkWalletRisk_Call ==
    /\ \E wallet_address \in WalletAddresses, include_holdings \in BOOLEAN :
          Begin("checkWalletRisk",
                [wallet_address |-> wallet_address,
                 include_holdings |-> include_holdings,
                 blockchain |-> "ethereum"])
    /\ \/ ConstructorThrows
       \/ /\ apiKey
          /\ IF ~matchesAddressFormat(args'.wallet_address)
             THEN Return(ErrorPayload("Invalid wallet address format"))
             ELSE /\ Await("getWalletProfile", "await_profile")
                  /\ UNCHANGED <<saved, response, escaped>>

checkWalletRisk_GotProfile ==
    /\ Continue("checkWalletRisk", "await_profile")
    /\ \E walletProfile \in WalletProfileSet \cup {Null, Rejected} :
          IF walletProfile = Rejected
          THEN Return(CaughtError("Failed to check wallet risk"))
          ELSE IF walletProfile = Null
          THEN Return(ErrorPayload("Unable to fetch wallet profile"))
          ELSE Return(Success(checkWalletRiskResult(walletProfile,
                                                    args.include_holdings)))

-----------------------------------------------------------------------------
(* checkWalletRisk (FastMCP server) *)

serverWashTradingRisk(walletProfile) ==
    IF walletProfile.washtrade_score > 70
    THEN [score |-> 40, flags |-> <<"high_wash_trading_activity">>]
    ELSE IF walletProfile.washtrade_score > 40
    THEN [score |-> 20, flags |-> <<"moderate_wash_trading_activity">>]
    ELSE NoFlag

serverConcentrationRisk(walletProfile) ==
    IF walletProfile.collection_count < 3 /\ walletProfile.nft_count > 50
    THEN [score |-> 15, flags |-> <<"high_portfolio_concentration">>]
    ELSE NoFlag

serverTradingBehavior(walletProfile) ==
    IF walletProfile.realized_losses > walletProfile.realized_gains * 2
    THEN [score |-> 20, flags |-> <<"poor_trading_performance">>]
    ELSE NoFlag

serverRiskLevel(riskScore) ==
    IF riskScore >= 60 THEN "HIGH"
    ELSE IF riskScore >= 30 THEN "MEDIUM"
    ELSE "LOW"

serverCheckWalletRiskResult(walletProfile) ==
    LET wash == serverWashTradingRisk(walletProfile)
        concentration == serverConcentrationRisk(walletProfile)
        trading == serverTradingBehavior(walletProfile)
        riskScore == wash.score + concentration.score + trading.score
        riskLevel == serverRiskLevel(riskScore)
    IN  [risk_score |-> Min(100, riskScore),
         risk_level |-> riskLevel,
         risk_factors |-> wash.flags \o concentration.flags \o trading.flags,
         profile |-> walletProfile,
         recommendations |->
             IF riskLevel = "HIGH" THEN "high_risk"
             ELSE IF riskLevel = "MEDIUM" THEN "moderate_risk"
             ELSE "low_risk"]

\* execute returns a string: the result has no isError property
serverCheckWalletRisk_Call ==
    /\ \E wallet_address \in ServerWalletAddresses :
          Begin("server.checkWalletRisk",
                [wallet_address |-> wallet_address, blockchain |-> "ethereum"])
    /\ \/ ConstructorThrows
       \/ /\ apiKey
          /\ Await("getWalletProfile", "await_profile")
          /\ UNCHANGED <<saved, response, escaped>>

serverCheckWalletRisk_GotProfile ==
    /\ Continue("server.checkWalletRisk", "await_profile")
    /\ \E walletProfile \in WalletProfileSet \cup {Null, Rejected} :
          IF walletProfile = Rejected
          THEN Return(ErrorPayload("Failed to analyze wallet risk"))
          ELSE IF walletProfile = Null
          THEN Return(ErrorPayload("Unable to fetch wallet profile"))
          ELSE Return(Success(serverCheckWalletRiskResult(walletProfile)))

-----------------------------------------------------------------------------
(* getInvestmentAdvice (tools module, the portfolio variant) *)
(* Dollar amounts are integers.  An allocation fraction is held as a      *)
(* percentage (0.35 is 35) and an allocated budget in hundredths of a     *)
(* dollar (budget * percentage), so that no product is rounded.           *)

RiskTolerances == {"conservative", "moderate", "aggressive"}
InvestmentHorizons == {"short", "medium", "long"}

\* what a caller may pass: z.string() accepts every string
RiskToleranceArgs == RiskTolerances \cup {"low"}
InvestmentHorizonArgs == InvestmentHorizons \cup {"forever"}
Budgets == {500, 1000, 5000, 20000}

MaxTrending == 2

\* the fields of MarketMetrics that the handler reads
MarketMetricsSet ==
    [volume_change_24h : {Pct(-11), 0, Pct(11)},
     sales_change_24h : {Pct(-6), 0, Pct(6)},
     average_price_change : {0, Pct(1)},
     active_wallets : {5000, 10001}]

\* trending collections: a blue chip, a collection that scores the same
\* under another name and at a floor price that equals a budget, a dearer
\* momentum play, and a collection whose metrics are all missing
TrendingCandidates ==
    {[name |-> "A", floor_price |-> 100, owner_count |-> 6000,
      volume_change_24h |-> Pct(25), floor_price_change_24h |-> Pct(5),
      sales_24h |-> 150],
     [name |-> "B", floor_price |-> 500, owner_count |-> 6000,
      volume_change_24h |-> Pct(25), floor_price_change_24h |-> Pct(5),
      sales_24h |-> 150],
     [name |-> "C", floor_price |-> 2000, owner_count |-> 2500,
      volume_change_24h |-> Pct(55), floor_price_change_24h |-> Pct(15),
      sales_24h |-> 60],
     [name |-> "D", floor_price |-> 0, owner_count |-> 0,
      volume_change_24h |-> 0, floor_price_change_24h |-> 0,
      sales_24h |-> 0]}

TrendingLists == UNION {[1..n -> TrendingCandidates] : n \in 0..MaxTrending}

Pending == [pending |-> TRUE]

\* an array as the value of a settled promise
ArrayOf(list) == [items |-> list]

analyzeMarketCondition(metrics) ==
    LET sentiment ==
            IF metrics.volume_change_24h > Pct(10) /\ metrics.sales_change_24h > Pct(5)
            THEN "bullish"
            ELSE IF metrics.volume_change_24h < Pct(-10)
                    /\ metrics.sales_change_24h < Pct(-5)
            THEN "bearish"
            ELSE "neutral"
    IN  [sentiment |-> sentiment,
         volume_trend |->
             IF metrics.volume_change_24h > 0 THEN "increasing" ELSE "decreasing",
         price_trend |->
             IF metrics.average_price_change > 0 THEN "rising" ELSE "falling",
         activity_level |->
             IF metrics.active_wallets > 10000 THEN "high"
             ELSE IF metrics.active_wallets > 5000 THEN "moderate"
             ELSE "low",
         description |-> sentiment]

NoFactor == [score |-> 0, factors |-> <<>>]

holderCountFactor(collection, riskTolerance) ==
    IF collection.owner_count > 5000
    THEN [score |-> IF riskTolerance = "conservative" THEN 30 ELSE 20,
          factors |-> <<"strong_community">>]
    ELSE IF collection.owner_count > 2000
    THEN [score |-> 15, factors |-> <<"growing_community">>]
    ELSE NoFactor

volumeTrendFactor(collection, riskTolerance) ==
    IF collection.volume_change_24h > Pct(20) /\ riskTolerance # "conservative"
    THEN [score |-> 20, factors |-> <<"high_momentum">>]
    ELSE IF collection.volume_change_24h > 0
    THEN [score |-> 10, factors |-> <<"positive_momentum">>]
    ELSE NoFactor

priceStabilityFactor(collection, riskTolerance) ==
    IF AbsVal(collection.floor_price_change_24h) < Pct(10)
    THEN [score |-> IF riskTolerance = "conservative" THEN 25 ELSE 15,
          factors |-> <<"price_stability">>]
    ELSE NoFactor

liquidityFactor(collection) ==
    IF collection.sales_24h > 100
    THEN [score |-> 20, factors |-> <<"high_liquidity">>]
    ELSE IF collection.sales_24h > 50
    THEN [score |-> 10, factors |-> <<"moderate_liquidity">>]
    ELSE NoFactor

timeHorizonFactor(collection, horizon) ==
    IF horizon = "long" /\ collection.owner_count > 3000
    THEN [score |-> 15, factors |-> <<"long_term_potential">>]
    ELSE IF horizon = "short" /\ collection.volume_change_24h > Pct(30)
    THEN [score |-> 15, factors |-> <<"short_term_opportunity">>]
    ELSE NoFactor

\* the body of the loop of scoreCollections for a collection it keeps
scoreCollection(collection, riskTolerance, horizon) ==
    LET holders == holderCountFactor(collection, riskTolerance)
        volume == volumeTrendFactor(collection, riskTolerance)
        price == priceStabilityFactor(collection, riskTolerance)
        liquidity == liquidityFactor(collection)
        time == timeHorizonFactor(collection, horizon)
    IN  [collection |-> collection.name,
         score |-> holders.score + volume.score + price.score
                   + liquidity.score + time.score,
         floor_price |-> collection.floor_price,
         factors |-> holders.factors \o volume.factors \o price.factors
                     \o liquidity.factors \o time.factors,
         metrics |-> [holders |-> collection.owner_count,
                      volume_change |-> collection.volume_change_24h,
                      floor_change |-> collection.floor_price_change_24h,
                      sales_24h |-> collection.sales_24h]]

RECURSIVE insertByScore_Unstable(_, _)
\* insertByScore with x put in front of the entries of its own score
insertByScore_Unstable(sorted, x) ==
    IF sorted = <<>> THEN <<x>>
    ELSE IF Head(sorted).score > x.score
    THEN <<Head(sorted)>> \o insertByScore_Unstable(Tail(sorted), x)
    ELSE <<x>> \o sorted

RECURSIVE insertByScore(_, _)
\* x put behind every entry whose score is not below its own
insertByScore(sorted, x) ==
    IF sorted = <<>> THEN <<x>>
    ELSE IF Head(sorted).score >= x.score
    THEN <<Head(sorted)>> \o insertByScore(Tail(sorted), x)
    ELSE <<x>> \o sorted

RECURSIVE sortByScore(_)
\* scored.sort((a, b) => b.score - a.score): Array.prototype.sort is stable
sortByScore(scored) ==
    IF scored = <<>> THEN <<>>
    ELSE insertByScore(sortByScore(SubSeq(scored, 1, Len(scored) - 1)),
                       scored[Len(scored)])

\* skipCollection with a floor price equal to the budget skipped too
skipCollection_Inclusive(collection, budget) == collection.floor_price >= budget

skipCollection(collection, budget) == collection.floor_price > budget

scoreCollections(collections, riskTolerance, horizon, budget) ==
    LET kept == SelectSeq(collections, LAMBDA c : ~skipCollection(c, budget))
    IN  sortByScore([i \in 1..Len(kept) |->
                        scoreCollection(kept[i], riskTolerance, horizon)])

\* maxPositions with two positions under 1000
maxPositions_Wide(budget, riskTolerance) ==
    IF budget < 1000 THEN 2
    ELSE IF budget < 5000
    THEN (IF riskTolerance = "conservative" THEN 2 ELSE 3)
    ELSE IF budget < 20000
    THEN (IF riskTolerance = "conservative" THEN 3 ELSE 5)
    ELSE (IF riskTolerance = "conservative" THEN 5 ELSE 8)

maxPositions(budget, riskTolerance) ==
    IF budget < 1000 THEN 1
    ELSE IF budget < 5000
    THEN (IF riskTolerance = "conservative" THEN 2 ELSE 3)
    ELSE IF budget < 20000
    THEN (IF riskTolerance = "conservative" THEN 3 ELSE 5)
    ELSE (IF riskTolerance = "conservative" THEN 5 ELSE 8)

allocationStrategy(riskTolerance) ==
    IF riskTolerance = "conservative" THEN <<40, 30, 20, 10>>
    ELSE IF riskTolerance = "moderate" THEN <<35, 25, 20, 15, 5>>
    ELSE <<30, 25, 20, 15, 10>>

\* allocationStrategy[i] || 0.1, for the position i counted from 1
allocationAt(riskTolerance, i) ==
    IF i <= Len(allocationStrategy(riskTolerance))
    THEN allocationStrategy(riskTolerance)[i]
    ELSE 10

\* Math.floor(allocatedBudget / floor_price) with the allocated budget in
\* hundredths: a division by 0 gives Infinity, and NaN for 0 / 0
recommendedQuantity(allocated100, floor_price) ==
    IF floor_price = 0
    THEN (IF allocated100 = 0
          THEN [kind |-> "NaN", value |-> 0]
          ELSE [kind |-> "Infinity", value |-> 0])
    ELSE [kind |-> "number", value |-> allocated100 \div (100 * floor_price)]

\* getRiskLevel(collection, riskTolerance) of the advice module
getCollectionRiskLevel(collection) ==
    IF Includes(collection.factors, "price_stability")
       /\ Includes(collection.factors, "strong_community")
    THEN "LOW"
    ELSE IF Includes(collection.factors, "high_momentum")
            /\ ~Includes(collection.factors, "strong_community")
    THEN "HIGH"
    ELSE "MEDIUM"

generateExpectedReturn(collection, horizon) ==
    IF horizon = "short"
    THEN (IF collection.metrics.volume_change > Pct(30) THEN "10-20%" ELSE "5-10%")
    ELSE IF horizon = "medium"
    THEN (IF collection.metrics.holders > 5000 THEN "20-50%" ELSE "10-30%")
    ELSE (IF collection.metrics.holders > 5000 THEN "50-200%" ELSE "30-100%")

\* the sentences of the reasoning text that follow the list of factors
generateRecommendationReasoning(collection) ==
    (IF Includes(collection.factors, "strong_community")
     THEN <<"large_holder_base">> ELSE <<>>)
    \o (IF Includes(collection.factors, "high_momentum")
        THEN <<"strong_recent_performance">> ELSE <<>>)
    \o (IF Includes(collection.factors, "price_stability")
        THEN <<"stable_pricing">> ELSE <<>>)

makeRecommendation(collection, allocation, budget, horizon) ==
    [collection |-> collection.collection,
     allocation |-> allocation,
     budget_allocation |-> budget * allocation,
     recommended_quantity |->
         recommendedQuantity(budget * allocation, collection.floor_price),
     entry_price |-> collection.floor_price,
     reasoning |-> generateRecommendationReasoning(collection),
     risk_level |-> getCollectionRiskLevel(collection),
     expected_return |-> generateExpectedReturn(collection, horizon),
     key_factors |-> collection.factors]

RECURSIVE recommendUpTo(_, _, _, _, _)
\* the recommendations after the first n turns of the loop
recommendUpTo(n, scoredCollections, budget, riskTolerance, horizon) ==
    IF n = 0 THEN <<>>
    ELSE LET before == recommendUpTo(n - 1, scoredCollections, budget,
                                     riskTolerance, horizon)
             collection == scoredCollections[n]
             allocation == allocationAt(riskTolerance, n)
         IN  IF 100 * collection.floor_price <= budget * allocation
             THEN Append(before,
                         makeRecommendation(collection, allocation, budget, horizon))
             ELSE before

generatePortfolioRecommendations(scoredCollections, budget, riskTolerance, horizon) ==
    recommendUpTo(Min(Len(scoredCollections), maxPositions(budget, riskTolerance)),
                  scoredCollections, budget, riskTolerance, horizon)

RECURSIVE sumAllocations(_)
sumAllocations(recommendations) ==
    IF recommendations = <<>> THEN 0
    ELSE Head(recommendations).budget_allocation
         + sumAllocations(Tail(recommendations))

countHighRisk(recommendations) ==
    Len(SelectSeq(recommendations, LAMBDA r : r.risk_level = "HIGH"))

\* n / recommendations.length: NaN for 0 / 0, else the fraction num / den
divideByLength(num, len) ==
    IF len = 0
    THEN [kind |-> "NaN", num |-> 0, den |-> 1]
    ELSE [kind |-> "number", num |-> num, den |-> len]

\* quotientAbove with the bound itself counted as above it
quotientAbove_Inclusive(q, n, d) == q.kind = "number" /\ q.num * d >= n * q.den

\* q > n / d for a quotient q; every comparison with NaN is false
quotientAbove(q, n, d) == q.kind = "number" /\ q.num * d > n * q.den

calculatePortfolioMetrics(recommendations, riskTolerance) ==
    LET totalAllocated == sumAllocations(recommendations)
        avgRisk == divideByLength(countHighRisk(recommendations),
                                  Len(recommendations))
    IN  [total_positions |-> Len(recommendations),
         total_allocated |-> totalAllocated,
         average_position_size |->
             divideByLength(totalAllocated, Len(recommendations)),
         diversification_score |-> Min(Len(recommendations) * 20, 100),
         risk_score |->
             IF quotientAbove(avgRisk, 5, 10) THEN "HIGH"
             ELSE IF quotientAbove(avgRisk, 2, 10) THEN "MEDIUM"
             ELSE "LOW",
         expected_return_range |->
             IF riskTolerance = "conservative" THEN "10-30%"
             ELSE IF riskTolerance = "moderate" THEN "20-50%"
             ELSE "30-100%"]

generateWarnings(marketCondition, riskTolerance, budget) ==
    (IF marketCondition.sentiment = "bearish" /\ riskTolerance = "conservative"
     THEN <<"challenging_for_conservative">> ELSE <<>>)
    \o (IF budget < 500 THEN <<"limited_budget">> ELSE <<>>)
    \o (IF marketCondition.activity_level = "low"
        THEN <<"low_market_activity">> ELSE <<>>)
    \o <<"highly_speculative", "past_performance">>

generateInvestmentStrategy(riskTolerance, horizon) ==
    IF riskTolerance = "conservative"
    THEN (IF horizon = "long" THEN "established_hold" ELSE "established_take_profits")
    ELSE IF riskTolerance = "moderate" THEN "balanced"
    ELSE "high_growth"

generateDiversificationAdvice(recommendations) ==
    IF Len(recommendations) = 1 THEN "single_position"
    ELSE IF Len(recommendations) < 3 THEN "minimal"
    ELSE IF Len(recommendations) < 5 THEN "moderate"
    ELSE "well_diversified"

generateExitStrategy(horizon) ==
    IF horizon = "short" THEN "take_profits"
    ELSE IF horizon = "medium" THEN "trailing_stops"
    ELSE "hold_quality"

getInvestmentAdviceResult(marketMetrics, trendingCollections, a) ==
    LET marketCondition == analyzeMarketCondition(marketMetrics)
        scoredCollections ==
            scoreCollections(trendingCollections, a.risk_tolerance,
                             a.investment_horizon, a.budget)
        recommendations ==
            generatePortfolioRecommendations(scoredCollections, a.budget,
                                             a.risk_tolerance, a.investment_horizon)
    IN  [budget |-> a.budget,
         risk_tolerance |-> a.risk_tolerance,
         investment_horizon |-> a.investment_horizon,
         market_conditions |-> marketCondition,
         recommendations |-> recommendations,
         portfolio_metrics |->
             calculatePortfolioMetrics(recommendations, a.risk_tolerance),
         investment_strategy |->
             generateInvestmentStrategy(a.risk_tolerance, a.investment_horizon),
         warnings |-> generateWarnings(marketCondition, a.risk_tolerance, a.budget),
         diversification_advice |-> generateDiversificationAdvice(recommendations),
         exit_strategy |-> generateExitStrategy(a.investment_horizon)]

\* the call up to await Promise.all([...]): both client methods are called
\* before the handler suspends
getInvestmentAdvice_Call ==
    /\ \E budget \in Budgets, risk_tolerance \in RiskToleranceArgs,
          investment_horizon \in InvestmentHorizonArgs :
          Begin("getInvestmentAdvice",
                [budget |-> budget,
                 risk_tolerance |-> risk_tolerance,
                 investment_horizon |-> investment_horizon])
    /\ \/ ConstructorThrows
       \/ /\ apiKey
          /\ IF args'.risk_tolerance \notin RiskTolerances
             THEN Return(ErrorPayload("Invalid risk tolerance"))
             ELSE IF args'.investment_horizon \notin InvestmentHorizons
             THEN Return(ErrorPayload("Invalid investment horizon"))
             ELSE /\ pc' = "await_all"
                  /\ calls' = calls \o <<"getMarketMetrics", "getTrendingCollections">>
                  /\ saved' = [marketMetrics |-> Pending,
                               trendingCollections |-> Pending]
                  /\ UNCHANGED <<response, escaped>>

\* Settle with the handler resumed by the first promise that is fulfilled
Settle_First(field, value, other) ==
    IF value = Rejected
    THEN Return(CaughtError("Failed to generate investment advice"))
    ELSE /\ saved' = [saved EXCEPT ![field] = value]
         /\ pc' = "joined"
         /\ UNCHANGED <<calls, response, escaped>>

\* Promise.all rejects with the first rejection and is fulfilled once both
\* promises are
Settle(field, value, other) ==
    IF value = Rejected
    THEN Return(CaughtError("Failed to generate investment advice"))
    ELSE /\ saved' = [saved EXCEPT ![field] = value]
         /\ pc' = IF saved[other] = Pending THEN "await_all" ELSE "joined"
         /\ UNCHANGED <<calls, response, escaped>>

getInvestmentAdvice_GotMarketMetrics ==
    /\ Continue("getInvestmentAdvice", "await_all")
    /\ saved.marketMetrics = Pending
    /\ \E marketMetrics \in MarketMetricsSet \cup {Null, Rejected} :
          Settle("marketMetrics", marketMetrics, "trendingCollections")

getInvestmentAdvice_GotTrendingCollections ==
    /\ Continue("getInvestmentAdvice", "await_all")
    /\ saved.trendingCollections = Pending
    /\ \E trendingCollections \in {ArrayOf(l) : l \in TrendingLists} \cup {Rejected} :
          Settle("trendingCollections", trendingCollections, "marketMetrics")

\* the handler from the end of the await to its return; an array is truthy,
\* so only a null marketMetrics takes the early return
getInvestmentAdvice_Joined ==
    /\ Continue("getInvestmentAdvice", "joined")
    /\ IF saved.marketMetrics = Null
       THEN Return(ErrorPayload("Unable to fetch market data for analysis"))
       ELSE Return(Success(getInvestmentAdviceResult(saved.marketMetrics,
                                                     saved.trendingCollections.items,
                                                     args)))

-----------------------------------------------------------------------------
(* getMarketTrends (tools module) *)

\* the fields of MarketMetrics that getMarketTrends compares: a value on
\* each side of the thresholds of determineMarketSentiment, and one beyond
\* those of the insight texts
TrendVolumeChanges ==
    {Pct(-35), Pct(-20) - 1, Pct(-20), -1, 0, 1, Pct(20), Pct(20) + 1, Pct(35)}
TrendSalesChanges == {Pct(-15) - 1, Pct(-15), Pct(15), Pct(15) + 1}
TrendWalletChanges == {Pct(-10) - 1, Pct(-10), Pct(10), Pct(10) + 1, Pct(25)}
TrendPriceChanges == {Pct(-20), Pct(-10) - 1, Pct(-10), Pct(10), Pct(10) + 1}
TrendActiveWallets == {0, 5000}
TrendAveragePrices == {1000}

TrendMetricsSet ==
    [volume_change_24h : TrendVolumeChanges,
     sales_change_24h : TrendSalesChanges,
     active_wallets_change : TrendWalletChanges,
     average_price_change : TrendPriceChanges,
     active_wallets : TrendActiveWallets,
     average_price : TrendAveragePrices]

\* the value of score when determineMarketSentiment classifies it
sentimentScore(metrics) ==
    (IF metrics.volume_change_24h > Pct(20) THEN 2
     ELSE IF metrics.volume_change_24h > 0 THEN 1
     ELSE IF metrics.volume_change_24h < Pct(-20) THEN -2
     ELSE IF metrics.volume_change_24h < 0 THEN -1
     ELSE 0)
    + (IF metrics.sales_change_24h > Pct(15) THEN 1
       ELSE IF metrics.sales_change_24h < Pct(-15) THEN -1
       ELSE 0)
    + (IF metrics.active_wallets_change > Pct(10) THEN 1
       ELSE IF metrics.active_wallets_change < Pct(-10) THEN -1
       ELSE 0)
    + (IF metrics.average_price_change > Pct(10) THEN 1
       ELSE IF metrics.average_price_change < Pct(-10) THEN -1
       ELSE 0)

\* determineMarketSentiment with bullish only above 3
determineMarketSentiment_Strict(metrics) ==
    IF sentimentScore(metrics) > 3 THEN "bullish"
    ELSE IF sentimentScore(metrics) <= -3 THEN "bearish"
    ELSE "neutral"

determineMarketSentiment(metrics) ==
    IF sentimentScore(metrics) >= 3 THEN "bullish"
    ELSE IF sentimentScore(metrics) <= -3 THEN "bearish"
    ELSE "neutral"

\* the insights, each with the number it prints
generateMarketInsights(metrics, trending, sentiment) ==
    LET highGrowth == SelectSeq(trending, LAMBDA c : c.volume_change_24h > Pct(50))
    IN  (IF AbsVal(metrics.volume_change_24h) > Pct(30)
         THEN <<[sentence |-> IF metrics.volume_change_24h > 0
                              THEN "volume_surge" ELSE "volume_decline",
                  value |-> AbsVal(metrics.volume_change_24h)]>>
         ELSE <<>>)
        \o (IF AbsVal(metrics.active_wallets_change) > Pct(20)
            THEN <<[sentence |-> IF metrics.active_wallets_change > 0
                                 THEN "traders_increase" ELSE "traders_decrease",
                     value |-> AbsVal(metrics.active_wallets_change)]>>
            ELSE <<>>)
        \o (IF metrics.average_price_change > Pct(15)
            THEN <<[sentence |-> "rising_prices", value |-> 0]>>
            ELSE IF metrics.average_price_change < Pct(-15)
            THEN <<[sentence |-> "declining_prices", value |-> 0]>>
            ELSE <<>>)
        \o (IF Len(highGrowth) > 0
            THEN <<[sentence |-> "explosive_growth", value |-> Len(highGrowth)]>>
            ELSE <<>>)
        \o <<[sentence |-> sentiment, value |-> 0]>>

generateMarketAnalysis(metrics, sentiment) ==
    <<[sentence |-> sentiment, value |-> 0],
      [sentence |-> IF metrics.volume_change_24h > 0 THEN "gain" ELSE "loss",
       value |-> AbsVal(metrics.volume_change_24h)]>>
    \o (IF metrics.active_wallets > 0
        THEN <<[sentence |->
                    IF metrics.active_wallets_change > Pct(10)
                    THEN "increased_participation"
                    ELSE IF metrics.active_wallets_change < Pct(-10)
                    THEN "declining_participation"
                    ELSE "stable_participation",
                value |-> metrics.active_wallets_change]>>
        ELSE <<>>)
    \o (IF AbsVal(metrics.average_price_change) > Pct(5)
        THEN <<[sentence |-> IF metrics.average_price_change > 0
                             THEN "prices_increased" ELSE "prices_decreased",
                 value |-> AbsVal(metrics.average_price_change)]>>
        ELSE <<>>)

identifyOpportunities(trending, metrics) ==
    LET undervalued ==
            SelectSeq(trending,
                      LAMBDA c : /\ c.volume_change_24h > Pct(20)
                                 /\ c.floor_price_change_24h < Pct(5)
                                 /\ c.owner_count > 1000)
        growingCommunity ==
            SelectSeq(trending,
                      LAMBDA c : /\ c.owner_count > 2000
                                 /\ c.floor_price < metrics.average_price)
        opportunities ==
            (IF Len(undervalued) > 0
             THEN <<[sentence |-> "entry_opportunity", name |-> undervalued[1].name]>>
             ELSE <<>>)
            \o (IF Len(growingCommunity) > 0
                THEN <<[sentence |-> "value_opportunities", name |-> ""]>>
                ELSE <<>>)
            \o (IF /\ metrics.volume_change_24h < Pct(-20)
                   /\ metrics.average_price_change < Pct(-15)
                THEN <<[sentence |-> "market_downturn", name |-> ""]>>
                ELSE IF /\ metrics.volume_change_24h > Pct(30)
                        /\ metrics.active_wallets_change > Pct(20)
                THEN <<[sentence |-> "take_profits", name |-> ""]>>
                ELSE <<>>)
    IN  IF Len(opportunities) = 0
        THEN <<[sentence |-> "patience", name |-> ""],
               [sentence |-> "fundamentals", name |-> ""]>>
        ELSE opportunities

\* trendingCollections.slice(0, 5).map(...)
formatTrending(trendingCollections) ==
    [i \in 1..Min(Len(trendingCollections), 5) |->
        [name |-> trendingCollections[i].name,
         volume_change |-> trendingCollections[i].volume_change_24h,
         floor_change |-> trendingCollections[i].floor_price_change_24h,
         floor_price |-> trendingCollections[i].floor_price,
         holders |-> trendingCollections[i].owner_count]]

getMarketTrendsResult(marketMetrics, trendingCollections, a) ==
    LET sentiment == determineMarketSentiment(marketMetrics)
    IN  [time_range |-> a.time_range,
         category |-> a.category,
         market_sentiment |-> sentiment,
         market_metrics |->
             [volume_change |-> marketMetrics.volume_change_24h,
              sales_change |-> marketMetrics.sales_change_24h,
              average_price |-> marketMetrics.average_price,
              average_price_change |-> marketMetrics.average_price_change,
              active_traders |-> marketMetrics.active_wallets,
              traders_change |-> marketMetrics.active_wallets_change],
         trending_collections |-> formatTrending(trendingCollections),
         market_analysis |-> generateMarketAnalysis(marketMetrics, sentiment),
         insights |->
             generateMarketInsights(marketMetrics, trendingCollections, sentiment),
         investment_opportunities |->
             identifyOpportunities(trendingCollections, marketMetrics)]

getMarketTrends_Call ==
    /\ Begin("getMarketTrends", [time_range |-> "24h", category |-> "all"])
    /\ \/ ConstructorThrows
       \/ /\ apiKey
          /\ Await("getMarketMetrics", "await_metrics")
          /\ UNCHANGED <<saved, response, escaped>>

getMarketTrends_GotMarketMetrics ==
    /\ Continue("getMarketTrends", "await_metrics")
    /\ \E marketMetrics \in TrendMetricsSet \cup {Null, Rejected} :
          IF marketMetrics = Rejected
          THEN Return(CaughtError("Failed to get market trends"))
          ELSE IF marketMetrics = Null
          THEN Return(ErrorPayload("Unable to fetch market metrics"))
          ELSE /\ Await("getTrendingCollections", "await_trending")
               /\ saved' = marketMetrics
               /\ UNCHANGED <<response, escaped>>

getMarketTrends_GotTrendingCollections ==
    /\ Continue("getMarketTrends", "await_trending")
    /\ \E trendingCollections \in {ArrayOf(l) : l \in TrendingLists} \cup {Rejected} :
          IF trendingCollections = Rejected
          THEN Return(CaughtError("Failed to get market trends"))
          ELSE Return(Success(getMarketTrendsResult(saved, trendingCollections.items,
                                                    args)))

-----------------------------------------------------------------------------
(* JSON values and their conversion to numbers *)
(* A value of an upstream payload is a record tagged with its type.  A     *)
(* string is the sequence of its characters.  A number is m / 10^e for an  *)
(* integer m and e >= 0 with no trailing zero in its fraction, so that     *)
(* 12.5 is Decimal(125, 1); NaN is a value of its own.                     *)

Undefined == [type |-> "undefined"]
JsonNull == [type |-> "null"]
JsonString(chars) == [type |-> "string", chars |-> chars]
JsonObject(value) == [type |-> "object", value |-> value]

RECURSIVE Decimal(_, _)
Decimal(m, e) ==
    IF e > 0 /\ m % 10 = 0 THEN Decimal(m \div 10, e - 1)
    ELSE [type |-> "number", m |-> m, e |-> e]

Zero == Decimal(0, 0)

Digits == <<"0", "1", "2", "3", "4", "5", "6", "7", "8", "9">>
IsDigit(c) == \E i \in 1..Len(Digits) : Digits[i] = c
DigitValue(c) == (CHOOSE i \in 1..Len(Digits) : Digits[i] = c) - 1

RECURSIVE Numeral(_)
\* the decimal numeral of a natural number, as upstream writes it in a string
Numeral(n) ==
    IF n < 10 THEN <<Digits[n + 1]>>
    ELSE Numeral(n \div 10) \o <<Digits[(n % 10) + 1]>>

RECURSIVE digitsValue(_)
digitsValue(ds) ==
    IF ds = <<>> THEN 0
    ELSE 10 * digitsValue(SubSeq(ds, 1, Len(ds) - 1)) + DigitValue(ds[Len(ds)])

\* the longest prefix of s made of digits
leadingDigits(s) ==
    LET n == CHOOSE k \in 0..Len(s) :
                 /\ \A i \in 1..k : IsDigit(s[i])
                 /\ k < Len(s) => ~IsDigit(s[k + 1])
    IN  SubSeq(s, 1, n)

RECURSIVE trimStart(_)
trimStart(s) == IF s # <<>> /\ Head(s) = " " THEN trimStart(Tail(s)) ELSE s

\* String(x) for a JSON string or number (a number without exponent)
StringOf(x) ==
    IF x.type = "string" THEN x.chars
    ELSE IF x.type = "number"
    THEN LET magnitude == AbsVal(x.m)
             whole == Numeral(magnitude \div (10 ^ x.e))
             fraction == Numeral((10 ^ x.e) + (magnitude % (10 ^ x.e)))
         IN  (IF x.m < 0 THEN <<"-">> ELSE <<>>)
             \o whole
             \o (IF x.e > 0 THEN <<".">> \o Tail(fraction) ELSE <<>>)
    ELSE IF x.type = "null" THEN <<"n", "u", "l", "l">>
    ELSE <<"u", "n", "d", "e", "f", "i", "n", "e", "d">>

\* parseFloat of a string without exponent part: leading blanks are
\* skipped, the longest prefix that is a decimal literal is converted and
\* what follows it is ignored; NaN when there is no such prefix
parseFloat(chars) ==
    LET t == trimStart(chars)
        signed == t # <<>> /\ Head(t) \in {"-", "+"}
        negative == t # <<>> /\ Head(t) = "-"
        u == IF signed THEN Tail(t) ELSE t
        whole == leadingDigits(u)
        rest == SubSeq(u, Len(whole) + 1, Len(u))
        fraction == IF rest # <<>> /\ Head(rest) = "."
                    THEN leadingDigits(Tail(rest))
                    ELSE <<>>
        magnitude == digitsValue(whole \o fraction)
    IN  IF Len(whole) + Len(fraction) = 0 THEN NaN
        ELSE Decimal(IF negative THEN -magnitude ELSE magnitude, Len(fraction))

\* parseInt of a string without radix prefix
parseInt(chars) ==
    LET t == trimStart(chars)
        signed == t # <<>> /\ Head(t) \in {"-", "+"}
        negative == t # <<>> /\ Head(t) = "-"
        whole == leadingDigits(IF signed THEN Tail(t) ELSE t)
    IN  IF whole = <<>> THEN NaN
        ELSE Decimal(IF negative THEN -digitsValue(whole) ELSE digitsValue(whole), 0)

\* !x
Falsy(x) ==
    \/ x.type \in {"undefined", "null", "NaN"}
    \/ x.type = "string" /\ x.chars = <<>>
    \/ x.type = "number" /\ x.m = 0

\* x || y
OrElse(x, y) == IF Falsy(x) THEN y ELSE x

\* x.key of a JSON value: undefined unless x is an object that has the key
Get(x, key) ==
    IF x.type = "object" /\ key \in DOMAIN x.value THEN x.value[key] ELSE Undefined

getValue(metric) ==
    IF Falsy(metric) THEN Zero
    ELSE LET value ==
                 parseFloat(StringOf(OrElse(Get(metric, "value"),
                                            JsonString(<<"0">>))))
         IN  IF value = NaN THEN Zero ELSE value

-----------------------------------------------------------------------------
(* UnleashNFTsClient *)
(* Every method of the client awaits its HTTP requests one after the       *)
(* other inside one try block.  A response is the settled request: its         *)
(* outcome is "ok" with the payload axios delivers in its data, or    *)
(* one of the ways in which axios rejects.                                 *)

JsonArray(items) == [type |-> "array", items |-> items]
EmptyObject == JsonObject(<<>>)

HttpFailures == {"timeout", "network_error", "http_error"}

Ok(url, data) == [url |-> url, outcome |-> "ok", data |-> data]
Failure(url, failure) == [url |-> url, outcome |-> failure, data |-> Undefined]
Failed(httpResponse) == httpResponse.outcome \in HttpFailures

ResponsesOf(url, payloads) ==
    {Ok(url, data) : data \in payloads} \cup {Failure(url, f) : f \in HttpFailures}

\* a + b and a < b for numbers m / 10^e
Plus(a, b) ==
    LET e == Max(a.e, b.e)
    IN  Decimal(a.m * (10 ^ (e - a.e)) + b.m * (10 ^ (e - b.e)), e)

LessThan(a, b) ==
    LET e == Max(a.e, b.e)
    IN  a.m * (10 ^ (e - a.e)) < b.m * (10 ^ (e - b.e))

\* Math.floor(a / n) for a natural number n > 0
FloorDivide(a, n) == Decimal(a.m \div ((10 ^ a.e) * n), 0)

UnknownCollection ==
    JsonString(<<"U", "n", "k", "n", "o", "w", "n", " ",
                 "C", "o", "l", "l", "e", "c", "t", "i", "o", "n">>)

\* a collection of the /collections payload
trendingCollection(collection) ==
    LET metadata == OrElse(Get(collection, "metadata"), EmptyObject)
        metrics == OrElse(Get(collection, "metric_values"), EmptyObject)
    IN  [name |-> OrElse(Get(metadata, "name"), UnknownCollection),
         owner_count |-> OrElse(getValue(Get(metrics, "holders")), Zero),
         volume_24h |-> OrElse(getValue(Get(metrics, "volume")), Zero),
         floor_price |-> OrElse(getValue(Get(metrics, "floor_price")), Zero),
         sales_24h |-> OrElse(getValue(Get(metrics, "sales")), Zero),
         volume_change_24h |->
             OrElse(getValue(Get(metrics, "volume_change")), Zero),
         floor_price_change_24h |->
             OrElse(getValue(Get(metrics, "floor_price_change")), Zero)]

\* what a method returns from its catch block
catchBlock(method) ==
    IF method = "getTrendingCollections" THEN ArrayOf(<<>>) ELSE Null

\* whether reading a property of the payload throws a TypeError
Throws(data) == data.type \in {"undefined", "null"}

\* the list getTrendingCollections returns for the response to its request
getTrendingCollections(httpResponse) ==
    IF Failed(httpResponse) \/ Throws(httpResponse.data) THEN <<>>
    ELSE LET collections ==
                 OrElse(Get(httpResponse.data, "collections"), JsonArray(<<>>))
         IN  [i \in 1..Len(collections.items) |->
                 trendingCollection(collections.items[i])]

RECURSIVE aggregate(_)
\* trendingCollections.reduce(...) of getMarketMetrics
aggregate(trendingCollections) ==
    IF trendingCollections = <<>>
    THEN [volume_24h |-> Zero, sales_24h |-> Zero, active_wallets |-> Zero]
    ELSE LET n == Len(trendingCollections)
             acc == aggregate(SubSeq(trendingCollections, 1, n - 1))
             collection == trendingCollections[n]
         IN  [volume_24h |->
                  Plus(acc.volume_24h, OrElse(collection.volume_24h, Zero)),
              sales_24h |->
                  Plus(acc.sales_24h, OrElse(collection.sales_24h, Zero)),
              active_wallets |->
                  Plus(acc.active_wallets, OrElse(collection.owner_count, Zero))]

\* getMarketMetrics with the change fields taken from the first collection
\* of the list instead of the constant 0
getMarketMetrics_FromFirst(httpResponse) ==
    LET trendingCollections == getTrendingCollections(httpResponse)
        aggregated == aggregate(trendingCollections)
        change == trendingCollections[1].volume_change_24h
    IN  IF Len(trendingCollections) = 0 THEN Null
        ELSE [volume_24h |-> aggregated.volume_24h,
              volume_change_24h |-> change,
              sales_24h |-> aggregated.sales_24h,
              sales_change_24h |-> change,
              average_price |->
                  IF LessThan(Zero, aggregated.sales_24h)
                  THEN [type |-> "quotient", of |-> aggregated.volume_24h,
                        by |-> aggregated.sales_24h]
                  ELSE Zero,
              average_price_change |-> change,
              active_wallets |->
                  FloorDivide(aggregated.active_wallets, Len(trendingCollections)),
              active_wallets_change |-> change]

\* getMarketMetrics for the response to the request of the
\* getTrendingCollections(50) it calls
getMarketMetrics(httpResponse) ==
    LET trendingCollections == getTrendingCollections(httpResponse)
        aggregated == aggregate(trendingCollections)
    IN  IF Len(trendingCollections) = 0 THEN Null
        ELSE [volume_24h |-> aggregated.volume_24h,
              volume_change_24h |-> Zero,
              sales_24h |-> aggregated.sales_24h,
              sales_change_24h |-> Zero,
              average_price |->
                  IF LessThan(Zero, aggregated.sales_24h)
                  THEN [type |-> "quotient", of |-> aggregated.volume_24h,
                        by |-> aggregated.sales_24h]
                  ELSE Zero,
              average_price_change |-> Zero,
              active_wallets |->
                  FloorDivide(aggregated.active_wallets, Len(trendingCollections)),
              active_wallets_change |-> Zero]

getWalletProfile(httpResponse) ==
    IF Failed(httpResponse) \/ Throws(httpResponse.data) THEN catchBlock("getWalletProfile")
    ELSE LET data == httpResponse.data
         IN  [nft_count |-> OrElse(Get(data, "nft_count"), Zero),
              collection_count |-> OrElse(Get(data, "collection_count"), Zero),
              total_value |-> OrElse(Get(data, "total_value"), Zero),
              realized_gains |-> OrElse(Get(data, "realized_gains"), Zero),
              realized_losses |-> OrElse(Get(data, "realized_losses"), Zero),
              washtrade_score |-> OrElse(Get(data, "washtrade_score"), Zero)]

\* getCollectionData once both of its requests were answered
getCollectionData(collectionResponse, metricsResponse) ==
    IF \/ Failed(collectionResponse) \/ Failed(metricsResponse)
       \/ Throws(metricsResponse.data) \/ Throws(collectionResponse.data)
    THEN catchBlock("getCollectionData")
    ELSE LET collection == collectionResponse.data
             metricsData ==
                 OrElse(Get(metricsResponse.data, "metric_values"), EmptyObject)
         IN  [name |-> OrElse(Get(collection, "name"), UnknownCollection),
              owner_count |-> getValue(Get(metricsData, "holders")),
              volume_24h |-> getValue(Get(metricsData, "volume")),
              floor_price |-> getValue(Get(metricsData, "floor_price")),
              sales_24h |-> getValue(Get(metricsData, "sales")),
              volume_change_24h |-> getValue(Get(metricsData, "volume_change")),
              floor_price_change_24h |-> Zero]

\* parseFloat(x || '0') and parseInt(x || '0')
parseFloatOrZero(x) == parseFloat(StringOf(OrElse(x, JsonString(<<"0">>))))
parseIntOrZero(x) == parseInt(StringOf(OrElse(x, JsonString(<<"0">>))))

\* the predicate of data.data_points.find(...)
hasWashTradeVolume(point) ==
    /\ ~Falsy(Get(point, "values"))
    /\ Get(Get(point, "values"), "washtrade_volume") # JsonString(<<"N", "A">>)
    /\ Get(Get(point, "values"), "washtrade_volume") # JsonNull

\* getCollectionWashTrading with a share of 20 percent reported for a data
\* point with a wash trade volume, instead of the constant 0
getCollectionWashTrading_Share(httpResponse) ==
    IF Failed(httpResponse) \/ Throws(httpResponse.data)
    THEN catchBlock("getCollectionWashTrading")
    ELSE LET data_points == Get(httpResponse.data, "data_points")
             found == IF Falsy(data_points) THEN <<>>
                      ELSE SelectSeq(data_points.items, hasWashTradeVolume)
         IN  [wash_trading_volume |-> Zero,
              total_volume |-> Zero,
              wash_trading_percentage |->
                  IF found # <<>> THEN Decimal(20, 0) ELSE Zero,
              wash_trading_sales |-> Zero,
              total_sales |-> Zero,
              wash_trading_wallets |-> Zero,
              wash_trading_assets |-> Zero,
              risk_score |-> Zero]

getCollectionWashTrading(httpResponse) ==
    IF Failed(httpResponse) \/ Throws(httpResponse.data)
    THEN catchBlock("getCollectionWashTrading")
    ELSE LET data == httpResponse.data
             data_points == Get(data, "data_points")
             found == IF Falsy(data_points) THEN <<>>
                      ELSE SelectSeq(data_points.items, hasWashTradeVolume)
             metrics == Get(data, "metrics")
         IN  IF found # <<>>
             THEN LET values == Get(found[1], "values")
                  IN  [wash_trading_volume |->
                           parseFloatOrZero(Get(values, "washtrade_volume")),
                       total_volume |-> Zero,
                       wash_trading_percentage |-> Zero,
                       wash_trading_sales |->
                           parseIntOrZero(Get(values, "washtrade_suspect_sales")),
                       total_sales |-> Zero,
                       wash_trading_wallets |->
                           parseIntOrZero(Get(values, "washtrade_wallets")),
                       wash_trading_assets |->
                           parseIntOrZero(Get(values, "washtrade_assets")),
                       risk_score |->
                           OrElse(Get(values, "washtrade_suspect_sales_change"),
                                  Zero)]
             ELSE IF ~Falsy(metrics)
             THEN [wash_trading_volume |->
                       parseFloatOrZero(
                           Get(Get(metrics, "washtrade_volume"), "value")),
                   total_volume |-> Zero,
                   wash_trading_percentage |-> Zero,
                   wash_trading_sales |->
                       parseIntOrZero(
                           Get(Get(metrics, "washtrade_suspect_sales"), "value")),
                   total_sales |-> Zero,
                   wash_trading_wallets |->
                       parseIntOrZero(Get(Get(metrics, "washtrade_wallets"), "value")),
                   wash_trading_assets |->
                       parseIntOrZero(Get(Get(metrics, "washtrade_assets"), "value")),
                   risk_score |->
                       OrElse(Get(Get(metrics, "washtrade_suspect_sales"), "value"),
                              Zero)]
             ELSE [wash_trading_volume |-> Zero,
                   total_volume |-> Zero,
                   wash_trading_percentage |-> Zero,
                   wash_trading_sales |-> Zero,
                   total_sales |-> Zero,
                   wash_trading_wallets |-> Zero,
                   wash_trading_assets |-> Zero,
                   risk_score |-> Zero]

\* the position of a client operation after a request of it has failed
afterFailure_Retrying(o) == [o EXCEPT !.pc = "await_1"]

afterFailure(o) == [o EXCEPT !.pc = "done", !.result = catchBlock(o.method)]

MaxStringLen == 4

\* the characters of the metric strings: digits, the point and the letters
\* of "NA"
MetricChars == {"1", "2", "5", ".", "N", "A"}
MetricStrings == UNION {[1..n -> MetricChars] : n \in 0..MaxStringLen}

NotAvailable == JsonObject([value |-> JsonString(<<"N", "A">>)])
Metric(n) == JsonObject([value |-> JsonString(Numeral(n))])

\* what metric_values may hold under the name of a metric
MetricInputs ==
    {Undefined, JsonNull, JsonString(<<"N", "A">>), EmptyObject,
     JsonObject([value |-> JsonNull]), JsonObject([value |-> Decimal(125, 1)]),
     JsonObject([value |-> Zero])}
    \cup {JsonObject([value |-> JsonString(chars)]) : chars \in MetricStrings}

CollectionPayloads == {JsonObject([name |-> JsonString(<<"A">>)]), Undefined}

MetricsPayloads ==
    {JsonObject([metric_values |->
        JsonObject([holders |-> holders,
                    volume |-> Metric(90000),
                    floor_price |-> Metric(100),
                    sales |-> Metric(150),
                    volume_change |-> NotAvailable])]) : holders \in MetricInputs}
    \cup {EmptyObject, Undefined}

WalletPayloads ==
    {JsonObject([nft_count |-> Decimal(15, 0),
                 collection_count |-> Decimal(1, 0),
                 total_value |-> Decimal(500, 0),
                 realized_gains |-> Zero,
                 realized_losses |-> Decimal(20000, 0),
                 washtrade_score |-> Decimal(60, 0)]),
     EmptyObject, Undefined}

WashTradeVolumes ==
    {JsonString(<<"N", "A">>), JsonNull, JsonString(<<"1", "2", ".", "5">>)}
WashTradeSales == {JsonString(<<"N", "A">>), JsonString(<<"7">>)}

WashTradePoints ==
    {JsonObject([values |->
        JsonObject([washtrade_volume |-> volume,
                    washtrade_suspect_sales |-> sales])]) :
        volume \in WashTradeVolumes, sales \in WashTradeSales}
    \cup {EmptyObject}

MaxPoints == 2

TrendPayloads ==
    {JsonObject([data_points |-> JsonArray(points)]) :
        points \in UNION {[1..n -> WashTradePoints] : n \in 0..MaxPoints}}
    \cup {JsonObject([metrics |->
              JsonObject([washtrade_volume |-> Metric(12),
                          washtrade_suspect_sales |-> NotAvailable])]),
          EmptyObject, Undefined}

\* a collection as the /collections endpoint reports it, every metric a
\* numeral in a string
UpstreamCollection(name, floor_price, holders, volume_change,
                   floor_price_change, sales, volume) ==
    JsonObject([metadata |-> JsonObject([name |-> JsonString(<<name>>)]),
                metric_values |->
                    JsonObject([floor_price |-> Metric(floor_price),
                                holders |-> Metric(holders),
                                volume_change |-> Metric(volume_change),
                                floor_price_change |-> Metric(floor_price_change),
                                sales |-> Metric(sales),
                                volume |-> Metric(volume)])])

\* the trending candidates as upstream reports them, the last one with
\* its metrics not yet computed
UpstreamCollections ==
    {UpstreamCollection("A", 100, 6000, 25, 5, 150, 90000),
     UpstreamCollection("B", 500, 6000, 25, 5, 150, 80000),
     UpstreamCollection("C", 2000, 2500, 55, 15, 60, 70000),
     JsonObject([metadata |-> JsonObject([name |-> JsonString(<<"D">>)]),
                 metric_values |->
                     JsonObject([holders |-> NotAvailable,
                                 volume |-> NotAvailable])])}

CollectionsPayloads ==
    {JsonObject([collections |-> JsonArray(list)]) :
        list \in UNION {[1..n -> UpstreamCollections] : n \in 0..MaxTrending}}
    \cup {EmptyObject, Undefined}

handlerVars == <<pc, tool, args, calls, saved, response, escaped>>

\* a method is called on a client that was constructed with an API key; it
\* runs up to its first await
Call(method) ==
    /\ apiKey
    /\ pc = "idle"
    /\ op.pc = "idle"
    /\ op' = [method |-> method, pc |-> "await_1", result |-> Pending]
    /\ UNCHANGED <<apiKey, handlerVars, http, frames, runs>>

\* the awaited request settles: a failure goes to the catch block
Settled(method, at, httpResponse, next) ==
    /\ op.method = method
    /\ op.pc = at
    /\ http' = Append(http, httpResponse)
    /\ op' = IF Failed(httpResponse) THEN afterFailure(op) ELSE next
    /\ UNCHANGED <<apiKey, handlerVars, frames, runs>>

Returning(result) == [op EXCEPT !.pc = "done", !.result = result]

getCollectionData_Call == Call("getCollectionData")

getCollectionData_GotCollection ==
    \E httpResponse \in ResponsesOf("collection", CollectionPayloads) :
        Settled("getCollectionData", "await_1", httpResponse,
                [op EXCEPT !.pc = "await_2"])

getCollectionData_GotMetrics ==
    \E httpResponse \in ResponsesOf("collection/metrics", MetricsPayloads) :
        Settled("getCollectionData", "await_2", httpResponse,
                Returning(getCollectionData(http[1], httpResponse)))

getWalletProfile_Call == Call("getWalletProfile")

getWalletProfile_GotProfile ==
    \E httpResponse \in ResponsesOf("wallet/profile", WalletPayloads) :
        Settled("getWalletProfile", "await_1", httpResponse,
                Returning(getWalletProfile(httpResponse)))

getCollectionWashTrading_Call == Call("getCollectionWashTrading")

getCollectionWashTrading_GotTrend ==
    \E httpResponse \in ResponsesOf("collection/trend", TrendPayloads) :
        Settled("getCollectionWashTrading", "await_1", httpResponse,
                Returning(getCollectionWashTrading(httpResponse)))

getTrendingCollections_Call == Call("getTrendingCollections")

getTrendingCollections_GotCollections ==
    \E httpResponse \in ResponsesOf("collections", CollectionsPayloads) :
        Settled("getTrendingCollections", "await_1", httpResponse,
                Returning(ArrayOf(getTrendingCollections(httpResponse))))

getMarketMetrics_Call == Call("getMarketMetrics")

getMarketMetrics_GotCollections ==
    \E httpResponse \in ResponsesOf("collections", CollectionsPayloads) :
        Settled("getMarketMetrics", "await_1", httpResponse,
                Returning(getMarketMetrics(httpResponse)))

\* the caller has the result; the next method is called
NextCall ==
    /\ op.pc = "done"
    /\ op' = NoOperation
    /\ http' = <<>>
    /\ UNCHANGED <<apiKey, handlerVars, frames, runs>>

NextClient ==
    \/ getCollectionData_Call
    \/ getCollectionData_GotCollection
    \/ getCollectionData_GotMetrics
    \/ getWalletProfile_Call
    \/ getWalletProfile_GotProfile
    \/ getCollectionWashTrading_Call
    \/ getCollectionWashTrading_GotTrend
    \/ getTrendingCollections_Call
    \/ getTrendingCollections_GotCollections
    \/ getMarketMetrics_Call
    \/ getMarketMetrics_GotCollections
    \/ NextCall

-----------------------------------------------------------------------------
(* The handlers against the client *)
(* The handlers with their awaits settled by the client methods            *)
(* themselves, each method with the requests it makes.  The handlers       *)
(* count in whole numbers and in Scale-ths of a percent: a number of the   *)
(* client is brought to that unit, which is exact for the whole numbers    *)
(* of UpstreamCollections.                                                 *)

inUnits(number, unit) == (number.m * unit) \div (10 ^ number.e)

collectionInUnits(collection) ==
    [name |-> collection.name,
     floor_price |-> inUnits(collection.floor_price, 1),
     owner_count |-> inUnits(collection.owner_count, 1),
     volume_change_24h |-> inUnits(collection.volume_change_24h, Scale),
     floor_price_change_24h |-> inUnits(collection.floor_price_change_24h, Scale),
     sales_24h |-> inUnits(collection.sales_24h, 1)]

collectionsInUnits(collections) ==
    [i \in 1..Len(collections) |-> collectionInUnits(collections[i])]

marketMetricsInUnits(metrics) ==
    IF metrics = Null THEN Null
    ELSE [volume_change_24h |-> inUnits(metrics.volume_change_24h, Scale),
          sales_change_24h |-> inUnits(metrics.sales_change_24h, Scale),
          average_price_change |-> inUnits(metrics.average_price_change, Scale),
          active_wallets |-> inUnits(metrics.active_wallets, 1)]

\* the payloads of /collections that the handlers are run against: lists
\* of the blue chip and the momentum play
ListedCollections ==
    {collection \in UpstreamCollections :
        Get(Get(collection, "metadata"), "name")
            \in {JsonString(<<"A">>), JsonString(<<"C">>)}}

ListPayloads ==
    {payload \in CollectionsPayloads :
        \A collection \in UpstreamCollections :
            Includes(OrElse(Get(payload, "collections"), JsonArray(<<>>)).items,
                     collection)
                => collection \in ListedCollections}

\* a promise of the Promise.all settles with what the client method returns
\* for the response to its request
Fetched(field, httpResponse, value, other) ==
    /\ pc = "await_all"
    /\ tool = "getInvestmentAdvice"
    /\ saved[field] = Pending
    /\ http' = Append(http, httpResponse)
    /\ Settle(field, value, other)
    /\ UNCHANGED <<apiKey, tool, args, op, frames, runs>>

getInvestmentAdvice_FetchedMarketMetrics ==
    \E httpResponse \in ResponsesOf("collections?limit=50", ListPayloads) :
        Fetched("marketMetrics", httpResponse,
                marketMetricsInUnits(getMarketMetrics(httpResponse)),
                "trendingCollections")

getInvestmentAdvice_FetchedTrendingCollections ==
    \E httpResponse \in ResponsesOf("collections?limit=20", ListPayloads) :
        Fetched("trendingCollections", httpResponse,
                ArrayOf(collectionsInUnits(getTrendingCollections(httpResponse))),
                "marketMetrics")

\* the awaited client method has made its requests and returned
FetchedBy(requests) ==
    /\ http' = http \o requests
    /\ UNCHANGED <<apiKey, tool, args, op, frames, runs>>

\* the handler of tool t is suspended at the await named at
Awaiting(t, at) == pc = at /\ tool = t

collectionDataInUnits(collectionData) ==
    IF collectionData = Null THEN Null ELSE collectionInUnits(collectionData)

\* the fields of the wash trading record that the handlers read; a count
\* of sales that is NaN is named under nan
washTradingInUnits(washTradingData) ==
    IF washTradingData = Null THEN Null
    ELSE [wash_trading_percentage |->
              inUnits(washTradingData.wash_trading_percentage, Scale),
          wash_trading_sales |->
              IF washTradingData.wash_trading_sales = NaN THEN 0
              ELSE inUnits(washTradingData.wash_trading_sales, 1),
          total_sales |-> inUnits(washTradingData.total_sales, 1),
          nan |-> IF washTradingData.wash_trading_sales = NaN
                  THEN {"wash_trading_sales"} ELSE {}]

\* MarketMetrics for getMarketTrends; average_price, a quotient that is
\* only compared with whole floor prices, is rounded up to a whole number
trendMetricsInUnits(metrics) ==
    IF metrics = Null THEN Null
    ELSE [volume_change_24h |-> inUnits(metrics.volume_change_24h, Scale),
          sales_change_24h |-> inUnits(metrics.sales_change_24h, Scale),
          active_wallets_change |-> inUnits(metrics.active_wallets_change, Scale),
          average_price_change |-> inUnits(metrics.average_price_change, Scale),
          active_wallets |-> inUnits(metrics.active_wallets, 1),
          average_price |->
              IF metrics.average_price.type = "quotient"
              THEN (inUnits(metrics.average_price.of, 1)
                    + inUnits(metrics.average_price.by, 1) - 1)
                   \div inUnits(metrics.average_price.by, 1)
              ELSE 0]

\* the metrics payloads with a whole number of holders, or none
WholeMetricsPayloads ==
    {payload \in MetricsPayloads :
        \/ payload = EmptyObject
        \/ Get(Get(Get(payload, "metric_values"), "holders"), "value")
               \in {JsonString(<<"5">>), JsonString(<<"5", "5", "5", "5">>),
                    JsonString(<<"N", "A">>)}}

\* the requests of one getCollectionData: the second is made only when the
\* first has not failed
CollectionDataRequests ==
    {IF Failed(collectionResponse) THEN <<collectionResponse>>
     ELSE <<collectionResponse, metricsResponse>> :
        collectionResponse \in ResponsesOf("collection", CollectionPayloads),
        metricsResponse \in ResponsesOf("collection/metrics", WholeMetricsPayloads)}

\* the result of getCollectionData; after a first request that failed the
\* second response is not read
collectionDataOf(requests) ==
    collectionDataInUnits(getCollectionData(requests[1], requests[Len(requests)]))

\* the handlers go on with the value the awaited method returned
analyzeCollection_WithCollection(collectionData) ==
    IF collectionData = Null
    THEN Return(ErrorPayload("Collection not found"))
    ELSE /\ Await("getCollectionWashTrading", "await_wash")
         /\ saved' = collectionData
         /\ UNCHANGED <<response, escaped>>

detectWashTrading_WithWashTrading(washTradingData) ==
    IF washTradingData = Null
    THEN Return(ErrorPayload("Unable to fetch wash trading data"))
    ELSE /\ Await("getCollectionData", "await_collection")
         /\ saved' = washTradingData
         /\ UNCHANGED <<response, escaped>>

getMarketTrends_WithMarketMetrics(marketMetrics) ==
    IF marketMetrics = Null
    THEN Return(ErrorPayload("Unable to fetch market metrics"))
    ELSE /\ Await("getTrendingCollections", "await_trending")
         /\ saved' = marketMetrics
         /\ UNCHANGED <<response, escaped>>

analyzeCollection_FetchedCollection ==
    /\ Awaiting("analyzeCollection", "await_collection")
    /\ \E requests \in CollectionDataRequests :
        /\ FetchedBy(requests)
        /\ analyzeCollection_WithCollection(collectionDataOf(requests))

analyzeCollection_FetchedWashTrading ==
    /\ Awaiting("analyzeCollection", "await_wash")
    /\ \E httpResponse \in ResponsesOf("collection/trend", TrendPayloads) :
        /\ FetchedBy(<<httpResponse>>)
        /\ Return(Success(analyzeCollectionResult(
                      saved,
                      washTradingInUnits(getCollectionWashTrading(httpResponse)))))

detectWashTrading_FetchedWashTrading ==
    /\ Awaiting("detectWashTrading", "await_wash")
    /\ \E httpResponse \in ResponsesOf("collection/trend", TrendPayloads) :
        /\ FetchedBy(<<httpResponse>>)
        /\ detectWashTrading_WithWashTrading(
               washTradingInUnits(getCollectionWashTrading(httpResponse)))

detectWashTrading_FetchedCollection ==
    /\ Awaiting("detectWashTrading", "await_collection")
    /\ \E requests \in CollectionDataRequests :
        /\ FetchedBy(requests)
        /\ Return(Success(detectWashTradingResult(saved, collectionDataOf(requests))))

getMarketTrends_FetchedMarketMetrics ==
    /\ Awaiting("getMarketTrends", "await_metrics")
    /\ \E httpResponse \in ResponsesOf("collections?limit=50", ListPayloads) :
        /\ FetchedBy(<<httpResponse>>)
        /\ getMarketTrends_WithMarketMetrics(
               trendMetricsInUnits(getMarketMetrics(httpResponse)))

getMarketTrends_FetchedTrendingCollections ==
    /\ Awaiting("getMarketTrends", "await_trending")
    /\ \E httpResponse \in ResponsesOf("collections?limit=10", ListPayloads) :
        /\ FetchedBy(<<httpResponse>>)
        /\ Return(Success(getMarketTrendsResult(
                      saved,
                      collectionsInUnits(getTrendingCollections(httpResponse)),
                      args)))

NextUpstream ==
    \/ getInvestmentAdvice_Call
    \/ getInvestmentAdvice_FetchedMarketMetrics
    \/ getInvestmentAdvice_FetchedTrendingCollections
    \/ getInvestmentAdvice_Joined
    \/ analyzeCollection_Call
    \/ analyzeCollection_FetchedCollection
    \/ analyzeCollection_FetchedWashTrading
    \/ detectWashTrading_Call
    \/ detectWashTrading_FetchedWashTrading
    \/ detectWashTrading_FetchedCollection
    \/ getMarketTrends_Call
    \/ getMarketTrends_FetchedMarketMetrics
    \/ getMarketTrends_FetchedTrendingCollections

-----------------------------------------------------------------------------
(* Concurrent invocations *)
(* Node runs one handler continuation at a time; a handler that awaits     *)
(* gives way to the other invocations in flight and is resumed with the    *)
(* settled value.  What is kept across an await are the parameters and the *)
(* constants of that call of the async function (frames); runs holds the   *)
(* continuation of each invocation and its response, with the request as   *)
(* it was made and the values it was resumed with.                         *)

MaxInvocations == 2
Invocations == 1..MaxInvocations

NoFrame == [tool |-> "none", args |-> NoArgs, saved |-> Null]
NotInvoked ==
    [tool |-> "none", pc |-> "idle", response |-> NoResponse,
     invoked |-> NoFrame, delivered |-> <<>>, overlapped |-> FALSE]

ConcurrentTools == {"analyzeCollection", "checkWalletRisk", "getInvestmentAdvice"}

\* the parameters and constants of a tool's handler kept in variables of
\* the tool's module, one set for all its invocations
frameOf_Shared(t, i) == <<t, 1>>

\* every call of the async handler has parameters and constants of its own
frameOf(t, i) == <<t, i>>

\* the handler from its entry to its first await or its return
enter(t, a) ==
    LET returning(r) == [pc |-> "done", saved |-> Null, response |-> r]
        awaiting(at) == [pc |-> at, saved |-> Null, response |-> NoResponse]
    IN  CASE t = "analyzeCollection" -> awaiting("await_collection")
          [] t = "checkWalletRisk" ->
                IF ~matchesAddressFormat(a.wallet_address)
                THEN returning(ErrorPayload("Invalid wallet address format"))
                ELSE awaiting("await_profile")
          [] t = "getInvestmentAdvice" ->
                IF a.risk_tolerance \notin RiskTolerances
                THEN returning(ErrorPayload("Invalid risk tolerance"))
                ELSE IF a.investment_horizon \notin InvestmentHorizons
                THEN returning(ErrorPayload("Invalid investment horizon"))
                ELSE awaiting("await_all")

\* the handler from the await it stands at, resumed with value, to its next
\* await or its return; Promise.all resumes it with both results at once
resume(at, frame, value) ==
    LET returning(r) == [pc |-> "done", saved |-> frame.saved, response |-> r]
    IN  CASE at = "await_collection" ->
                IF value = Rejected
                THEN returning(CaughtError("Failed to analyze collection"))
                ELSE IF value = Null
                THEN returning(ErrorPayload("Collection not found"))
                ELSE [pc |-> "await_wash", saved |-> value,
                      response |-> NoResponse]
          [] at = "await_wash" ->
                IF value = Rejected
                THEN returning(CaughtError("Failed to analyze collection"))
                ELSE returning(Success(analyzeCollectionResult(frame.saved, value)))
          [] at = "await_profile" ->
                IF value = Rejected
                THEN returning(CaughtError("Failed to check wallet risk"))
                ELSE IF value = Null
                THEN returning(ErrorPayload("Unable to fetch wallet profile"))
                ELSE returning(Success(
                         checkWalletRiskResult(value, frame.args.include_holdings)))
          [] at = "await_all" ->
                IF value = Rejected
                THEN returning(CaughtError("Failed to generate investment advice"))
                ELSE IF value.marketMetrics = Null
                THEN returning(
                         ErrorPayload("Unable to fetch market data for analysis"))
                ELSE returning(Success(
                         getInvestmentAdviceResult(value.marketMetrics,
                                                   value.trendingCollections.items,
                                                   frame.args)))

\* the requests made while another is in flight
ConcurrentRequests ==
    {[tool |-> "analyzeCollection", args |-> [blockchain |-> "ethereum"]]}
    \cup {[tool |-> "checkWalletRisk",
           args |-> [wallet_address |-> wallet_address,
                     include_holdings |-> include_holdings,
                     blockchain |-> "ethereum"]] :
             wallet_address \in {w \in ServerWalletAddresses :
                                      matchesAddressFormat(w)},
             include_holdings \in BOOLEAN}
    \cup {[tool |-> "getInvestmentAdvice",
           args |-> [budget |-> budget,
                     risk_tolerance |-> "moderate",
                     investment_horizon |-> "short"]] : budget \in {500, 5000}}

\* what the client may settle the await with
Settlements(at) ==
    CASE at = "await_collection" ->
            {c \in CollectionDataSet :
                /\ c.owner_count \in {99, 5000}
                /\ c.volume_change_24h = 0
                /\ c.floor_price_change_24h = 0}
      [] at = "await_wash" ->
            {w \in WashTradingDataSet :
                /\ w.wash_trading_percentage = Pct(40)
                /\ w.wash_trading_sales = 7} \cup {Rejected}
      [] at = "await_profile" ->
            {p \in WalletProfileSet :
                /\ ~p.is_whale /\ ~p.is_shark
                /\ p.nft_count = 15 /\ p.collection_count = 1
                /\ p.total_value = 500 /\ p.realized_gains = 0
                /\ p.realized_losses = 20000
                /\ p.washtrade_score = 71} \cup {Null}
      [] at = "await_all" ->
            {[marketMetrics |-> m, trendingCollections |-> ArrayOf(l)] :
                m \in {x \in MarketMetricsSet :
                          /\ x.volume_change_24h = Pct(11)
                          /\ x.sales_change_24h = Pct(6)
                          /\ x.average_price_change = Pct(1)
                          /\ x.active_wallets = 10001},
                l \in {t \in TrendingLists :
                          /\ Len(t) = 2
                          /\ t[1].name = "A"
                          /\ t[2].name = "C"}}
            \cup {Rejected}

InFlight(i) == runs[i].pc \notin {"idle", "done"}

otherVars == <<apiKey, handlerVars, http, op>>

\* a request arrives and its handler runs up to its first await
Invoke(i) ==
    /\ apiKey
    /\ pc = "idle"
    /\ op.pc = "idle"
    /\ runs[i].pc = "idle"
    /\ \E request \in ConcurrentRequests :
          LET entered == enter(request.tool, request.args)
              frame == [tool |-> request.tool, args |-> request.args,
                        saved |-> entered.saved]
          IN  /\ frames' = [frames EXCEPT ![frameOf(request.tool, i)] = frame]
              /\ runs' = [runs EXCEPT ![i] =
                              [tool |-> request.tool,
                               pc |-> entered.pc,
                               response |-> entered.response,
                               invoked |-> frame,
                               delivered |-> <<>>,
                               overlapped |-> \E j \in Invocations \ {i} :
                                                  InFlight(j)]]
    /\ UNCHANGED otherVars

\* the await of an invocation in flight settles and its handler runs on
Resume(i) ==
    /\ InFlight(i)
    /\ \E value \in Settlements(runs[i].pc) :
          LET slot == frameOf(runs[i].tool, i)
              resumed == resume(runs[i].pc, frames[slot], value)
          IN  /\ frames' = [frames EXCEPT ![slot].saved = resumed.saved]
              /\ runs' = [runs EXCEPT ![i].pc = resumed.pc,
                                      ![i].response = resumed.response,
                                      ![i].delivered = Append(@, value),
                                      ![i].overlapped =
                                          @ \/ \E j \in Invocations \ {i} :
                                                   InFlight(j)]
    /\ UNCHANGED otherVars

NextConcurrent == \E i \in Invocations : Invoke(i) \/ Resume(i)

-----------------------------------------------------------------------------
(* The portfolio functions of getInvestmentAdvice on longer lists *)
(* scoreCollections, generatePortfolioRecommendations and                  *)
(* calculatePortfolioMetrics applied one after the other, as the handler   *)
(* applies them, to lists long enough to fill the positions of every       *)
(* budget.                                                                 *)

MaxCandidates == 6

PortfolioHorizons == {"short", "long"}
PortfolioLists == UNION {[1..n -> TrendingCandidates] : n \in 0..MaxCandidates}

\* const scoredCollections = await scoreCollections(...)
scoreCollections_Applied ==
    /\ pc = "idle"
    /\ op.pc = "idle"
    /\ \E budget \in Budgets, risk_tolerance \in RiskTolerances,
          investment_horizon \in PortfolioHorizons,
          trendingCollections \in PortfolioLists :
          /\ tool' = "getInvestmentAdvice"
          /\ args' = [budget |-> budget,
                      risk_tolerance |-> risk_tolerance,
                      investment_horizon |-> investment_horizon]
          /\ saved' = ArrayOf(scoreCollections(trendingCollections, risk_tolerance,
                                               investment_horizon, budget))
    /\ pc' = "scored"
    /\ UNCHANGED <<apiKey, calls, response, escaped, http, op, frames, runs>>

\* const recommendations = generatePortfolioRecommendations(...);
\* const portfolioMetrics = calculatePortfolioMetrics(...)
generatePortfolioRecommendations_Applied ==
    /\ pc = "scored"
    /\ LET recommendations ==
               generatePortfolioRecommendations(saved.items, args.budget,
                                                args.risk_tolerance,
                                                args.investment_horizon)
       IN  response' =
               Success([recommendations |-> recommendations,
                        portfolio_metrics |->
                            calculatePortfolioMetrics(recommendations,
                                                      args.risk_tolerance)])
    /\ pc' = "done"
    /\ UNCHANGED <<apiKey, tool, args, calls, saved, escaped, http, op, frames,
                   runs>>

NextPortfolio ==
    \/ scoreCollections_Applied
    \/ generatePortfolioRecommendations_Applied

-----------------------------------------------------------------------------
(* The server *)

\* the handler has settled; the server takes the next request
NextRequest ==
    /\ pc = "done"
    /\ pc' = "idle"
    /\ tool' = "none"
    /\ args' = NoArgs
    /\ calls' = <<>>
    /\ saved' = Null
    /\ response' = NoResponse
    /\ escaped' = FALSE
    /\ UNCHANGED <<apiKey, http, op, frames, runs>>

Init ==
    /\ apiKey \in BOOLEAN
    /\ pc = "idle"
    /\ tool = "none"
    /\ args = NoArgs
    /\ calls = <<>>
    /\ saved = Null
    /\ response = NoResponse
    /\ escaped = FALSE
    /\ http = <<>>
    /\ op = NoOperation
    /\ frames = [slot \in ConcurrentTools \X Invocations |-> NoFrame]
    /\ runs = [i \in Invocations |-> NotInvoked]

Next ==
    \/ analyzeCollection_Call
    \/ analyzeCollection_GotCollection
    \/ analyzeCollection_GotWashTrading
    \/ detectWashTrading_Call
    \/ detectWashTrading_GotWashTrading
    \/ detectWashTrading_GotCollection
    \/ checkWalletRisk_Call
    \/ checkWalletRisk_GotProfile
    \/ serverCheckWalletRisk_Call
    \/ serverCheckWalletRisk_GotProfile
    \/ getInvestmentAdvice_Call
    \/ getInvestmentAdvice_GotMarketMetrics
    \/ getInvestmentAdvice_GotTrendingCollections
    \/ getInvestmentAdvice_Joined
    \/ getMarketTrends_Call
    \/ getMarketTrends_GotMarketMetrics
    \/ getMarketTrends_GotTrendingCollections
    \/ NextRequest

Spec == Init /\ [][Next]_vars

\* the server started with an API key in its environment
InitConfigured == Init /\ apiKey

SpecConfigured == InitConfigured /\ [][Next]_vars

\* the methods of a client called one at a time
SpecClient == InitConfigured /\ [][NextClient]_vars

\* one invocation of a handler down to the HTTP requests
SpecUpstream == Init /\ [][NextUpstream]_vars

\* the portfolio functions on lists of up to MaxCandidates collections
SpecPortfolio == InitConfigured /\ [][NextPortfolio]_vars

\* invocations in flight at the same time
SpecConcurrent == InitConfigured /\ [][NextConcurrent]_vars

-----------------------------------------------------------------------------
(* Properties *)

ToolsModule ==
    {"analyzeCollection", "detectWashTrading", "getMarketTrends",
     "checkWalletRisk", "getInvestmentAdvice"}

Returned(t) == tool = t /\ pc = "done" /\ IsSuccess(response)

WashDataWith(percentage) ==
    [wash_trading_percentage |-> percentage, wash_trading_sales |-> 0,
     total_sales |-> 0]

\* C1: analyzeCollection gives a collection with owner_count >= 500, a wash
\* trading percentage of at most 15 (or no wash trading data, reported as
\* 0), volume_change_24h >= -50 and |floor_price_change_24h| <= 30 the
\* safety score 100, no risks and the recommendation SAFE.
C1_SafeCollectionScores100 ==
    Returned("analyzeCollection") =>
        LET r == response.result
        IN  (/\ r.holders >= 500
             /\ r.wash_trading_percentage <= Pct(15)
             /\ r.volume_change_24h >= Pct(-50)
             /\ AbsVal(r.floor_price_change_24h) <= Pct(30))
            => (/\ r.safety_score = 100
                /\ r.risks = <<>>
                /\ r.recommendation = "SAFE")

\* every bound of C1 met with equality
C1_Witness ==
    /\ Returned("analyzeCollection")
    /\ response.result.holders = 500
    /\ response.result.wash_trading_percentage = Pct(15)
    /\ Includes(calls, "getCollectionWashTrading")
    /\ response.result.volume_change_24h = Pct(-50)
    /\ response.result.floor_price_change_24h = Pct(-30)
    /\ response.result.safety_score = 100

\* C2: with the collection held fixed, the safety score analyzeCollection
\* returns does not increase with the wash trading percentage: every lower
\* percentage scores at least as much as the returned score, every higher
\* one at most as much.
C2_ScoreMonotoneInWashTrading ==
    Returned("analyzeCollection") =>
        \A p \in PctValues :
            LET score == analyzeCollectionResult(saved, WashDataWith(p)).safety_score
                mine == response.result
            IN  /\ p <= mine.wash_trading_percentage => score >= mine.safety_score
                /\ p >= mine.wash_trading_percentage => score <= mine.safety_score

\* a score that has stepped down twice: 100 at 15, 85 at 30, 70 above 30
C2_Witness ==
    /\ Returned("analyzeCollection")
    /\ response.result.wash_trading_percentage = Pct(30) + 1
    /\ response.result.safety_score = 70
    /\ analyzeCollectionResult(saved, WashDataWith(Pct(30))).safety_score = 85
    /\ analyzeCollectionResult(saved, WashDataWith(Pct(15))).safety_score = 100

\* C3: the severity detectWashTrading reports is CRITICAL from 40, HIGH in
\* [25, 40), MODERATE in [15, 25), LOW in [5, 15) and MINIMAL below 5, and
\* a percentage above 100 is CRITICAL.
C3_SeverityIsStepFunction ==
    Returned("detectWashTrading") =>
        LET p == response.result.wash_trading_percentage
            severity == response.result.severity
        IN  /\ p >= Pct(40) <=> severity = "CRITICAL"
            /\ (p >= Pct(25) /\ p < Pct(40)) <=> severity = "HIGH"
            /\ (p >= Pct(15) /\ p < Pct(25)) <=> severity = "MODERATE"
            /\ (p >= Pct(5) /\ p < Pct(15)) <=> severity = "LOW"
            /\ p < Pct(5) <=> severity = "MINIMAL"
            /\ p > Pct(100) => severity = "CRITICAL"

\* 39.9 is HIGH
C3_Witness ==
    /\ Returned("detectWashTrading")
    /\ response.result.wash_trading_percentage = Pct(40) - 1
    /\ response.result.severity = "HIGH"

\* C4: detectWashTrading reports wash_trading_detected exactly when the
\* percentage is above 5, and exactly when the severity is not MINIMAL.
C4_DetectedIffSeverityNotMinimal ==
    Returned("detectWashTrading") =>
        LET r == response.result
        IN  /\ r.wash_trading_detected <=> r.wash_trading_percentage > Pct(5)
            /\ r.wash_trading_detected <=> r.severity # "MINIMAL"

C5_Points(condition, points) == IF condition THEN points ELSE 0
C5_Flag(condition, flag) == IF condition THEN <<flag>> ELSE <<>>

\* C5: checkWalletRisk returns as risk_score the sum of the penalties of
\* the triggered conditions, as red_flags their flags, and as risk_level
\* HIGH from 70, MODERATE from 40, LOW from 20, else MINIMAL; the profile
\* {washtrade 0, 5 collections, 20 NFTs, gains 100, losses 50} scores
\* 0 / MINIMAL and {washtrade 60, 1 collection, 15 NFTs, gains 0, losses
\* 20000} scores 75 / HIGH.
C5_WalletRiskScore ==
    Returned("checkWalletRisk") =>
        LET r == response.result
            w == r.profile
            high == w.washtrade_score > 50
            moderate == ~high /\ w.washtrade_score > 20
            poor == /\ 2 * w.realized_gains < Max(w.realized_losses, 1)
                    /\ w.realized_losses > 10000
            concentrated == w.collection_count = 1 /\ w.nft_count > 10
            inconsistent == w.nft_count = 0 /\ w.total_value > 0
        IN  /\ r.risk_score =
                   C5_Points(high, 40) + C5_Points(moderate, 20)
                   + C5_Points(poor, 15) + C5_Points(concentrated, 20)
                   + C5_Points(inconsistent, 15)
            /\ r.red_flags =
                   C5_Flag(high, "high_wash_trading_activity")
                   \o C5_Flag(moderate, "moderate_wash_trading_activity")
                   \o C5_Flag(poor, "poor_trading_performance")
                   \o C5_Flag(concentrated, "highly_concentrated_portfolio")
                   \o C5_Flag(inconsistent, "inconsistent_portfolio_data")
            /\ r.risk_score >= 70 <=> r.risk_level = "HIGH"
            /\ (r.risk_score >= 40 /\ r.risk_score < 70) <=> r.risk_level = "MODERATE"
            /\ (r.risk_score >= 20 /\ r.risk_score < 40) <=> r.risk_level = "LOW"
            /\ r.risk_score < 20 <=> r.risk_level = "MINIMAL"
            /\ (/\ w.washtrade_score = 0 /\ w.collection_count = 5
                /\ w.nft_count = 20 /\ w.realized_gains = 100
                /\ w.realized_losses = 50)
               => (r.risk_score = 0 /\ r.risk_level = "MINIMAL")
            /\ (/\ w.washtrade_score = 60 /\ w.collection_count = 1
                /\ w.nft_count = 15 /\ w.realized_gains = 0
                /\ w.realized_losses = 20000)
               => (r.risk_score = 75 /\ r.risk_level = "HIGH")

\* the second profile of C5, scored 75 / HIGH
C5_Witness ==
    /\ Returned("checkWalletRisk")
    /\ response.result.profile.washtrade_score = 60
    /\ response.result.profile.collection_count = 1
    /\ response.result.profile.nft_count = 15
    /\ response.result.profile.realized_gains = 0
    /\ response.result.profile.realized_losses = 20000
    /\ response.result.risk_score = 75
    /\ response.result.risk_level = "HIGH"

\* C6: an invocation of checkWalletRisk (tools module) with a wallet_address
\* that is not 0x and 40 hex characters calls no client method, and ends
\* with the error response "Invalid wallet address format".
C6_InvalidAddressRejectedBeforeFetch ==
    (tool = "checkWalletRisk" /\ ~matchesAddressFormat(args.wallet_address)) =>
        /\ calls = <<>>
        /\ pc = "done" => response = ErrorPayload("Invalid wallet address format")

\* C7: an invocation of the FastMCP server's checkWalletRisk with a
\* wallet_address that is not 0x and 40 hex characters never calls
\* getWalletProfile, and ends with an error response.
C7_ServerRejectsInvalidAddress ==
    (tool = "server.checkWalletRisk" /\ ~matchesAddressFormat(args.wallet_address)) =>
        /\ ~Includes(calls, "getWalletProfile")
        /\ pc = "done" => IsFailure(response)

\* C8: an invocation of getInvestmentAdvice with a risk_tolerance or an
\* investment_horizon outside its enumeration calls no client method, and
\* ends with a validation error response.
C8_InvalidEnumRejectedBeforeFetch ==
    (/\ tool = "getInvestmentAdvice"
     /\ \/ args.risk_tolerance \notin RiskTolerances
        \/ args.investment_horizon \notin InvestmentHorizons) =>
        /\ calls = <<>>
        /\ pc = "done" =>
               response \in {ErrorPayload("Invalid risk tolerance"),
                             ErrorPayload("Invalid investment horizon")}

\* C9: every invocation of a tool ends with a response: no exception leaves
\* the handler.
C9_NoExceptionEscapes ==
    pc = "done" => (~escaped /\ response # NoResponse)

\* C10: a response of a tools-module operation has isError set exactly
\* when it is a failure response.
C10_IsErrorMarksEveryFailure ==
    (tool \in ToolsModule /\ pc = "done" /\ response # NoResponse) =>
        (response.isError <=> IsFailure(response))

\* the scored candidates of the running getInvestmentAdvice invocation, as
\* the handler computes them from what Promise.all delivered
Kept(collections, budget) ==
    SelectSeq(collections, LAMBDA c : c.floor_price <= budget)

Scored ==
    scoreCollections(saved.trendingCollections.items, args.risk_tolerance,
                     args.investment_horizon, args.budget)

Occurrences(seq, Test(_)) == Cardinality({i \in 1..Len(seq) : Test(seq[i])})

\* C13: scoreCollections returns one scored entry for every candidate whose
\* floor_price is at most the budget and none for the others; when every
\* candidate's floor price exceeds the budget the recommendations list is
\* empty.
C13_FilterDropsOverBudget ==
    Returned("getInvestmentAdvice") =>
        LET input == saved.trendingCollections.items
        IN  /\ Len(Scored) = Len(Kept(input, args.budget))
            /\ \A c \in TrendingCandidates :
                   Occurrences(Scored, LAMBDA e : e.collection = c.name) =
                       IF c.floor_price <= args.budget
                       THEN Occurrences(input, LAMBDA x : x = c)
                       ELSE 0
            /\ (\A i \in 1..Len(input) : input[i].floor_price > args.budget)
               => response.result.recommendations = <<>>

\* budget 1000 and a single candidate at 2000: nothing is recommended
C13_Witness ==
    /\ Returned("getInvestmentAdvice")
    /\ args.budget = 1000
    /\ Len(saved.trendingCollections.items) = 1
    /\ saved.trendingCollections.items[1].floor_price = 2000
    /\ Scored = <<>>
    /\ response.result.recommendations = <<>>

\* a candidate whose floor price equals the budget is kept
C13_WitnessAtBudget ==
    /\ Returned("getInvestmentAdvice")
    /\ args.budget = 500
    /\ Len(saved.trendingCollections.items) = 1
    /\ saved.trendingCollections.items[1].floor_price = 500
    /\ Len(Scored) = 1

C16_Points(condition, points) == IF condition THEN points ELSE 0
C16_Tag(condition, tag) == IF condition THEN <<tag>> ELSE <<>>

\* C16: the safety score of analyzeCollection is 100 minus the penalties of
\* the triggered conditions and risks lists their tags in order: owner_count
\* < 100 (20, low_holder_count) else < 500 (10, moderate_holder_count); wash
\* trading percentage > 30 (30, high_wash_trading) else > 15 (15,
\* moderate_wash_trading); volume_change_24h < -50 (15,
\* sharp_volume_decline); |floor_price_change_24h| > 30 (10,
\* high_price_volatility); the score lies in 0..100.
C16_SafetyScoreIsSumOfPenalties ==
    Returned("analyzeCollection") =>
        LET r == response.result
            low == r.holders < 100
            moderate == ~low /\ r.holders < 500
            highWash == r.wash_trading_percentage > Pct(30)
            moderateWash == ~highWash /\ r.wash_trading_percentage > Pct(15)
            decline == r.volume_change_24h < Pct(-50)
            volatile == \/ r.floor_price_change_24h > Pct(30)
                        \/ r.floor_price_change_24h < Pct(-30)
        IN  /\ r.safety_score =
                   100 - C16_Points(low, 20) - C16_Points(moderate, 10)
                   - C16_Points(highWash, 30) - C16_Points(moderateWash, 15)
                   - C16_Points(decline, 15) - C16_Points(volatile, 10)
            /\ r.risks =
                   C16_Tag(low, "low_holder_count")
                   \o C16_Tag(moderate, "moderate_holder_count")
                   \o C16_Tag(highWash, "high_wash_trading")
                   \o C16_Tag(moderateWash, "moderate_wash_trading")
                   \o C16_Tag(decline, "sharp_volume_decline")
                   \o C16_Tag(volatile, "high_price_volatility")
            /\ r.safety_score \in 0..100

\* every condition triggered at once, the price having fallen
C16_Witness ==
    /\ Returned("analyzeCollection")
    /\ response.result.safety_score = 25
    /\ response.result.floor_price_change_24h = Pct(-30) - 1
    /\ response.result.risks =
           <<"low_holder_count", "high_wash_trading", "sharp_volume_decline",
             "high_price_volatility">>

\* C17: the analysis text of analyzeCollection has, for every tag in risks,
\* a sentence for that tag.
C17_AnalysisNamesEveryRisk ==
    Returned("analyzeCollection") =>
        \A i \in 1..Len(response.result.risks) :
            \E j \in 1..Len(response.result.analysis) :
                response.result.analysis[j].sentence = response.result.risks[i]

\* C19: scoreCollections returns the candidates by descending score, and
\* candidates of equal score in the order in which they were received.
C19_RankedDescendingAndStable ==
    Returned("getInvestmentAdvice") =>
        LET kept == Kept(saved.trendingCollections.items, args.budget)
        IN  \A i, j \in 1..Len(Scored) :
                i < j =>
                    /\ Scored[i].score >= Scored[j].score
                    /\ Scored[i].score = Scored[j].score =>
                           \E p, q \in 1..Len(kept) :
                               /\ p < q
                               /\ kept[p].name = Scored[i].collection
                               /\ kept[q].name = Scored[j].collection

\* two candidates of equal score, B received before A
C19_Witness ==
    /\ Returned("getInvestmentAdvice")
    /\ Len(saved.trendingCollections.items) = 2
    /\ saved.trendingCollections.items[1].name = "B"
    /\ saved.trendingCollections.items[2].name = "A"
    /\ Len(Scored) = 2
    /\ Scored[1].collection = "B"
    /\ Scored[2].collection = "A"
    /\ Scored[1].score = Scored[2].score

\* a candidate of lower score received first is ranked second
C19_WitnessReordered ==
    /\ Returned("getInvestmentAdvice")
    /\ Len(Scored) = 2
    /\ saved.trendingCollections.items[1].name = Scored[2].collection
    /\ Scored[1].score > Scored[2].score

\* the position bound of the budget / risk tolerance table
C20_PositionBound ==
    IF args.budget < 1000 THEN 1
    ELSE IF args.budget < 5000
    THEN (IF args.risk_tolerance = "conservative" THEN 2 ELSE 3)
    ELSE IF args.budget < 20000
    THEN (IF args.risk_tolerance = "conservative" THEN 3 ELSE 5)
    ELSE (IF args.risk_tolerance = "conservative" THEN 5 ELSE 8)

\* C20: getInvestmentAdvice recommends at most as many positions as the
\* budget / risk tolerance table allows (1 under 1000; 2 or 3 under 5000;
\* 3 or 5 under 20000; else 5 or 8, the lower number for conservative), and
\* every recommendation is one of the top-ranked candidates up to that
\* bound.
C20_RecommendationsWithinPositionBound ==
    Returned("getInvestmentAdvice") =>
        LET recommendations == response.result.recommendations
        IN  /\ Len(recommendations) <= C20_PositionBound
            /\ \A r \in 1..Len(recommendations) :
                   \E i \in 1..Min(C20_PositionBound, Len(Scored)) :
                       Scored[i].collection = recommendations[r].collection

\* two affordable candidates and a budget under 1000: one recommendation
C20_Witness ==
    /\ Returned("getInvestmentAdvice")
    /\ args.budget = 500
    /\ Len(Scored) = 2
    /\ Scored[2].floor_price = 0
    /\ Len(response.result.recommendations) = 1
    /\ response.result.recommendations[1].collection = Scored[1].collection

C18_Term(up, down, points) == IF up THEN points ELSE IF down THEN -points ELSE 0

\* the score of C18 over the market metrics a response reports
C18_Score ==
    LET m == response.result.market_metrics
    IN  (IF m.volume_change > Pct(20) THEN 2
         ELSE IF m.volume_change > 0 THEN 1
         ELSE IF m.volume_change < Pct(-20) THEN -2
         ELSE IF m.volume_change < 0 THEN -1
         ELSE 0)
        + C18_Term(m.sales_change > Pct(15), m.sales_change < Pct(-15), 1)
        + C18_Term(m.traders_change > Pct(10), m.traders_change < Pct(-10), 1)
        + C18_Term(m.average_price_change > Pct(10),
                   m.average_price_change < Pct(-10), 1)

\* C18: the market sentiment getMarketTrends reports is bullish exactly
\* when the score is at least 3, bearish exactly when it is at most -3 and
\* neutral otherwise, where the score adds volume_change_24h (> 20: 2, > 0:
\* 1, < -20: -2, < 0: -1), sales_change_24h (> 15: 1, < -15: -1),
\* active_wallets_change (> 10: 1, < -10: -1) and average_price_change
\* (> 10: 1, < -10: -1); the score lies in -5..5.
C18_SentimentFromScore ==
    Returned("getMarketTrends") =>
        /\ C18_Score \in -5..5
        /\ response.result.market_sentiment = "bullish" <=> C18_Score >= 3
        /\ response.result.market_sentiment = "bearish" <=> C18_Score <= -3
        /\ response.result.market_sentiment = "neutral" <=>
               (C18_Score > -3 /\ C18_Score < 3)

\* a score of exactly 3, with two metrics on their thresholds
C18_Witness ==
    /\ Returned("getMarketTrends")
    /\ C18_Score = 3
    /\ response.result.market_metrics.traders_change = Pct(10)
    /\ response.result.market_metrics.average_price_change = Pct(10)
    /\ response.result.market_sentiment = "bullish"

\* C11: when the request behind the market metrics or the one behind the
\* trending collections ends in a timeout or a transport failure,
\* getInvestmentAdvice returns an error response, not a success payload.
C11_FetchFailureGivesErrorResponse ==
    (/\ tool = "getInvestmentAdvice"
     /\ pc = "done"
     /\ \E i \in 1..Len(http) : http[i].outcome \in {"timeout", "network_error"})
        => IsFailure(response)

\* C12: once a request of a client operation has failed, the operation has
\* issued no further request and has returned null (the empty list for
\* getTrendingCollections).
C12_NoRequestAfterFailure ==
    \A i \in 1..Len(http) :
        Failed(http[i]) =>
            /\ i = Len(http)
            /\ op.pc = "done"
            /\ op.result = IF op.method = "getTrendingCollections"
                           THEN ArrayOf(<<>>)
                           ELSE Null

\* the first of the two requests of getCollectionData timed out
C12_Witness ==
    /\ op.method = "getCollectionData"
    /\ Len(http) = 1
    /\ http[1].outcome = "timeout"
    /\ op.pc = "done"
    /\ op.result = Null

\* a string that is a decimal numeral: an optional sign, then digits with
\* at most one point
C14_IsNumeral(chars) ==
    LET unsigned == IF chars # <<>> /\ Head(chars) \in {"-", "+"}
                    THEN Tail(chars) ELSE chars
    IN  /\ \A i \in 1..Len(unsigned) : IsDigit(unsigned[i]) \/ unsigned[i] = "."
        /\ Cardinality({i \in 1..Len(unsigned) : unsigned[i] = "."}) <= 1
        /\ \E i \in 1..Len(unsigned) : IsDigit(unsigned[i])

\* C14: getValue gives a number for every metric: 0 for an absent metric,
\* for a null value and for "NA" or any other string that is not a
\* numeral, and 12.5 for "12.5".
C14_GetValueNormalizes ==
    (/\ op.method = "getCollectionData"
     /\ op.pc = "done"
     /\ Len(http) = 2
     /\ op.result # Null) =>
        LET metric == Get(Get(http[2].data, "metric_values"), "holders")
            value == Get(metric, "value")
            normalized == op.result.owner_count
        IN  /\ normalized.type = "number"
            /\ metric = Undefined => normalized = Zero
            /\ value = JsonNull => normalized = Zero
            /\ (value.type = "string" /\ ~C14_IsNumeral(value.chars))
               => normalized = Zero
            /\ value = JsonString(<<"1", "2", ".", "5">>)
               => normalized = Decimal(125, 1)

\* the response of a handler that runs with no other invocation in flight:
\* entered with the request, then resumed with each value in turn
RECURSIVE C15_ResumedWith(_, _)
C15_ResumedWith(run, values) ==
    IF values = <<>> \/ run.pc = "done" THEN run
    ELSE LET resumed == resume(run.pc, run.frame, Head(values))
         IN  C15_ResumedWith(
                 [pc |-> resumed.pc,
                  frame |-> [run.frame EXCEPT !.saved = resumed.saved],
                  response |-> resumed.response],
                 Tail(values))

C15_Alone(request, values) ==
    LET entered == enter(request.tool, request.args)
    IN  C15_ResumedWith(
            [pc |-> entered.pc,
             frame |-> [request EXCEPT !.saved = entered.saved],
             response |-> entered.response],
            values).response

\* C15: whatever the interleaving of the invocations, the response of each
\* is the one its handler gives when it runs alone with the same request
\* and is resumed with the same values.
C15_InvocationsAreIsolated ==
    \A i \in Invocations :
        runs[i].pc = "done" =>
            runs[i].response = C15_Alone(runs[i].invoked, runs[i].delivered)

\* two invocations of analyzeCollection that overlapped, each resumed with
\* a collection of its own, have both returned
C15_Witness ==
    /\ \A i \in {1, 2} :
          /\ runs[i].pc = "done"
          /\ runs[i].overlapped
          /\ runs[i].invoked.tool = "analyzeCollection"
          /\ IsSuccess(runs[i].response)
    /\ runs[1].delivered[1] # runs[2].delivered[1]
    /\ runs[1].response # runs[2].response

\* an invocation of checkWalletRisk and one of getInvestmentAdvice that
\* overlapped have both returned
C15_WitnessTwoTools ==
    /\ runs[1].invoked.tool = "checkWalletRisk"
    /\ runs[2].invoked.tool = "getInvestmentAdvice"
    /\ \A i \in {1, 2} :
          /\ runs[i].pc = "done"
          /\ runs[i].overlapped
          /\ IsSuccess(runs[i].response)

\* the recommendations and the metrics that the portfolio functions returned
C21_Recommendations == response.result.recommendations
C21_Returned ==
    tool = "getInvestmentAdvice" /\ pc = "done" /\ IsSuccess(response)

\* C21: in the recommendations of generatePortfolioRecommendations the
\* allocation fraction of a later rank is never greater than that of an
\* earlier rank.
C21_AllocationDecreasesWithRank ==
    C21_Returned =>
        \A i, j \in 1..Len(C21_Recommendations) :
            i < j => C21_Recommendations[j].allocation
                         <= C21_Recommendations[i].allocation

\* C22: every recommendation has entry_price <= budget_allocation and a
\* recommended_quantity that is the finite integer
\* floor(budget_allocation / entry_price), also for a floor price of 0.
\* (budget_allocation is counted in hundredths.)
C22_QuantityIsFiniteFloor ==
    C21_Returned =>
        \A i \in 1..Len(C21_Recommendations) :
            LET rec == C21_Recommendations[i]
                price == 100 * rec.entry_price
            IN  /\ price <= rec.budget_allocation
                /\ rec.recommended_quantity.kind = "number"
                /\ rec.recommended_quantity.value >= 0
                /\ rec.recommended_quantity.value * price <= rec.budget_allocation
                /\ (rec.recommended_quantity.value + 1) * price
                       > rec.budget_allocation

C23_HighRisk ==
    Cardinality({i \in 1..Len(C21_Recommendations) :
                    C21_Recommendations[i].risk_level = "HIGH"})

\* C23: diversification_score is min(20 * number of recommendations, 100);
\* risk_score is HIGH when more than half of the recommendations are HIGH
\* risk, MEDIUM when more than a fifth are, LOW otherwise.
C23_PortfolioMetrics ==
    C21_Returned =>
        LET n == Len(C21_Recommendations)
            metrics == response.result.portfolio_metrics
        IN  /\ metrics.diversification_score = (IF 20 * n < 100 THEN 20 * n ELSE 100)
            /\ metrics.risk_score =
                   IF 2 * C23_HighRisk > n THEN "HIGH"
                   ELSE IF 5 * C23_HighRisk > n THEN "MEDIUM"
                   ELSE "LOW"

\* exactly half of the recommendations are HIGH risk: MEDIUM
C23_Witness ==
    /\ C21_Returned
    /\ Len(C21_Recommendations) = 2
    /\ C23_HighRisk = 1
    /\ response.result.portfolio_metrics.risk_score = "MEDIUM"

\* exactly a fifth of the recommendations are HIGH risk: LOW, at the top
\* diversification score
C23_WitnessFifth ==
    /\ C21_Returned
    /\ Len(C21_Recommendations) = 5
    /\ C23_HighRisk = 1
    /\ response.result.portfolio_metrics.risk_score = "LOW"
    /\ response.result.portfolio_metrics.diversification_score = 100

\* more than half: HIGH
C23_WitnessHigh ==
    /\ C21_Returned
    /\ 2 * C23_HighRisk > Len(C21_Recommendations)
    /\ response.result.portfolio_metrics.risk_score = "HIGH"

RECURSIVE C26_Sum(_)
C26_Sum(recommendations) ==
    IF recommendations = <<>> THEN 0
    ELSE recommendations[1].budget_allocation + C26_Sum(Tail(recommendations))

\* C26: the budget allocations of the recommendations, and total_allocated
\* in the portfolio metrics, add up to at most the budget.  (Allocations
\* are counted in hundredths.)
C26_AllocationsWithinBudget ==
    C21_Returned =>
        /\ C26_Sum(C21_Recommendations) <= 100 * args.budget
        /\ response.result.portfolio_metrics.total_allocated <= 100 * args.budget

\* C27: with no recommendation the portfolio metrics are numbers still:
\* no division by zero, total_positions, total_allocated and
\* diversification_score 0.
C27_EmptyPortfolioMetrics ==
    (C21_Returned /\ C21_Recommendations = <<>>) =>
        LET metrics == response.result.portfolio_metrics
        IN  /\ metrics.average_position_size.kind = "number"
            /\ metrics.total_positions = 0
            /\ metrics.total_allocated = 0
            /\ metrics.diversification_score = 0

C28_FirstFraction ==
    IF args.risk_tolerance = "conservative" THEN 40
    ELSE IF args.risk_tolerance = "moderate" THEN 35
    ELSE 30

\* C28: when a candidate that passed the budget filter has a floor price
\* of at most the budget times the first allocation fraction of the risk
\* tier, there is at least one recommendation.
C28_AffordableCandidateIsRecommended ==
    (/\ C21_Returned
     /\ \E i \in 1..Len(saved.items) :
           100 * saved.items[i].floor_price <= args.budget * C28_FirstFraction)
        => C21_Recommendations # <<>>

\* the upstream values behind the record of getCollectionWashTrading: those
\* of the selected data point, else those of the metrics summary
C24_Upstream(data, field) ==
    LET data_points == Get(data, "data_points")
        found == IF Falsy(data_points) THEN <<>>
                 ELSE SelectSeq(data_points.items, hasWashTradeVolume)
    IN  IF found # <<>> THEN Get(Get(found[1], "values"), field)
        ELSE Get(Get(Get(data, "metrics"), field), "value")

C24_Unavailable(x) == x \in {Undefined, JsonNull, JsonString(<<"N", "A">>)}

\* C24: every numeric field of the record of getCollectionWashTrading is a
\* number, and is 0 when its upstream field is absent, null or "NA".
C24_UnavailableFieldsAreZero ==
    (/\ op.method = "getCollectionWashTrading"
     /\ op.pc = "done"
     /\ op.result # Null) =>
        /\ \A field \in {"wash_trading_volume", "total_volume",
                         "wash_trading_percentage", "wash_trading_sales",
                         "total_sales", "wash_trading_wallets",
                         "wash_trading_assets", "risk_score"} :
              op.result[field].type = "number"
        /\ \A pair \in {<<"wash_trading_volume", "washtrade_volume">>,
                        <<"wash_trading_sales", "washtrade_suspect_sales">>,
                        <<"wash_trading_wallets", "washtrade_wallets">>,
                        <<"wash_trading_assets", "washtrade_assets">>} :
              C24_Unavailable(C24_Upstream(http[1].data, pair[2]))
                  => op.result[pair[1]] = Zero

\* the response to the request with the given url, whenever it settled
C25_ResponseTo(url) == http[CHOOSE i \in 1..Len(http) : http[i].url = url]

\* the handler's response for the two settled requests
C25_Advice ==
    LET marketMetrics ==
            marketMetricsInUnits(
                getMarketMetrics(C25_ResponseTo("collections?limit=50")))
        trendingCollections ==
            collectionsInUnits(
                getTrendingCollections(C25_ResponseTo("collections?limit=20")))
    IN  IF marketMetrics = Null
        THEN ErrorPayload("Unable to fetch market data for analysis")
        ELSE Success(getInvestmentAdviceResult(marketMetrics, trendingCollections,
                                               args))

\* C25: getInvestmentAdvice issues both fetches before it suspends, goes on
\* to scoring only when both have completed, and its response depends on
\* the two results only, not on which fetch completed first.
C25_JoinedBeforeScoring ==
    tool = "getInvestmentAdvice" =>
        /\ pc = "await_all" =>
              /\ calls = <<"getMarketMetrics", "getTrendingCollections">>
              /\ Len(http) < 2
        /\ (pc = "joined" \/ (pc = "done" /\ calls # <<>>)) =>
              /\ Len(http) = 2
              /\ saved.marketMetrics # Pending
              /\ saved.trendingCollections # Pending
        /\ (pc = "done" /\ calls # <<>>) => response = C25_Advice

\* the trending collections arrived first, the market metrics second
C25_Witness ==
    /\ tool = "getInvestmentAdvice"
    /\ pc = "done"
    /\ Len(http) = 2
    /\ http[1].url = "collections?limit=20"
    /\ http[2].url = "collections?limit=50"
    /\ IsSuccess(response)
    /\ response.result.recommendations # <<>>

\* the market metrics arrived first, the trending collections second
C25_WitnessMetricsFirst ==
    /\ tool = "getInvestmentAdvice"
    /\ pc = "done"
    /\ Len(http) = 2
    /\ http[1].url = "collections?limit=50"
    /\ http[2].url = "collections?limit=20"
    /\ IsSuccess(response)
    /\ response.result.recommendations # <<>>


\* C29: whatever the upstream answers, the wash trading record of the
\* client has wash_trading_percentage 0, so a successful detectWashTrading
\* reports severity MINIMAL and wash_trading_detected false, and
\* analyzeCollection raises neither high nor moderate wash trading.
C29_WashTradingNeverDetected ==
    /\ \A i \in 1..Len(http) :
          (http[i].url = "collection/trend"
              /\ getCollectionWashTrading(http[i]) # Null)
              => getCollectionWashTrading(http[i]).wash_trading_percentage = Zero
    /\ (tool = "detectWashTrading" /\ pc = "await_collection")
          => saved.wash_trading_percentage = 0
    /\ (tool = "detectWashTrading" /\ pc = "done" /\ IsSuccess(response))
          => /\ response.result.severity = "MINIMAL"
             /\ ~response.result.wash_trading_detected
             /\ response.result.wash_trading_percentage = 0
    /\ (tool = "analyzeCollection" /\ pc = "done" /\ IsSuccess(response))
          => /\ ~Includes(response.result.risks, "high_wash_trading")
             /\ ~Includes(response.result.risks, "moderate_wash_trading")

\* detectWashTrading succeeded on a trend with a wash trade volume and
\* suspect sales
C29_Witness ==
    /\ tool = "detectWashTrading"
    /\ pc = "done"
    /\ IsSuccess(response)
    /\ getCollectionWashTrading(http[1]).wash_trading_volume # Zero
    /\ response.result.wash_trading_sales = [type |-> "number", value |-> 7]

\* analyzeCollection succeeded on a trend with a wash trade volume
C29_WitnessAnalysis ==
    /\ tool = "analyzeCollection"
    /\ pc = "done"
    /\ IsSuccess(response)
    /\ getCollectionWashTrading(http[Len(http)]) # Null
    /\ getCollectionWashTrading(http[Len(http)]).wash_trading_volume # Zero

\* C30: whatever the upstream answers, the market metrics of the client
\* have the four change fields 0, so a successful getMarketTrends reports
\* market_sentiment neutral and a successful getInvestmentAdvice reports
\* market_conditions.sentiment neutral.
C30_SentimentAlwaysNeutral ==
    /\ \A i \in 1..Len(http) :
          LET marketMetrics == getMarketMetrics(http[i])
          IN  (http[i].url = "collections?limit=50" /\ marketMetrics # Null)
                  => /\ marketMetrics.volume_change_24h = Zero
                     /\ marketMetrics.sales_change_24h = Zero
                     /\ marketMetrics.average_price_change = Zero
                     /\ marketMetrics.active_wallets_change = Zero
    /\ (tool = "getMarketTrends" /\ pc = "done" /\ IsSuccess(response))
          => /\ response.result.market_sentiment = "neutral"
             /\ response.result.market_metrics.volume_change = 0
             /\ response.result.market_metrics.sales_change = 0
             /\ response.result.market_metrics.average_price_change = 0
             /\ response.result.market_metrics.traders_change = 0
    /\ (tool = "getInvestmentAdvice" /\ pc = "done" /\ IsSuccess(response))
          => response.result.market_conditions.sentiment = "neutral"

\* getMarketTrends succeeded on a market whose collections gained volume
C30_Witness ==
    /\ tool = "getMarketTrends"
    /\ pc = "done"
    /\ IsSuccess(response)
    /\ Len(http) = 2
    /\ getTrendingCollections(http[1]) # <<>>
    /\ \A i \in 1..Len(getTrendingCollections(http[1])) :
          LessThan(Decimal(20, 0),
                   getTrendingCollections(http[1])[i].volume_change_24h)

\* getInvestmentAdvice succeeded on a market whose collections gained volume
C30_WitnessAdvice ==
    /\ tool = "getInvestmentAdvice"
    /\ pc = "done"
    /\ IsSuccess(response)
    /\ LET market ==
               getTrendingCollections(C25_ResponseTo("collections?limit=50"))
       IN  /\ market # <<>>
           /\ \A i \in 1..Len(market) :
                 LessThan(Decimal(20, 0), market[i].volume_change_24h)

====
